---- MODULE Spec2Model ----
(***************************************************************************)
(* A model of the FSM record codec of fsm-toolkit (src/fsm_converter.py):  *)
(* json_to_fsm, format_record, parse_record, fsm_to_hex and hex_to_fsm.    *)
(*                                                                         *)
(* Texts are sequences of one-character strings, so that formatting and    *)
(* parsing are computed character by character.  Python's None is the      *)
(* empty sequence <<>> and a present value v is <<v>>.                     *)
(***************************************************************************)
EXTENDS Integers, Sequences, FiniteSets, TLC

VARIABLES
    pc,                 \* position of the pipeline / of the decoder loop
    data,               \* the structured description given to json_to_fsm
    fsm,                \* the FSM built by json_to_fsm, or the FSM a first
                        \* hex_to_fsm returned (None before)
    error,              \* the error raised (None when none)
    emitted,            \* the field tuples handed to format_record by fsm_to_hex
    reverse_maps,       \* reverse maps of fsm_to_hex: state_names,
                        \* input_names and output_names, each id -> name
    records,            \* the record texts given to hex_to_fsm
    labels,             \* the label table given to hex_to_fsm
    pos,                \* number of records consumed by the decoder loop
    state_ids, input_ids, output_ids,
    has_mealy, has_nfa_multi, has_moore_outputs,
    initial_state, accepting_states, state_outputs, transitions, nfa_pending,
    result,             \* the FSM returned by hex_to_fsm (None before)
    record,             \* the text given to a single parse_record call
    parsed,             \* what that call returned
    car,                \* state id the generated elevator machine is in
    taken,              \* fields of the record it followed last
    tool                \* the program whose hex_to_fsm runs: "converter" for
                        \* fsm_converter.py, "visualise" for fsm_visualise.py

pipeVars == <<data, fsm, error, emitted, reverse_maps>>
decVars  == <<state_ids, input_ids, output_ids, has_mealy, has_nfa_multi,
              has_moore_outputs, initial_state, accepting_states,
              state_outputs, transitions, nfa_pending>>
ioVars   == <<records, labels, pos, result>>
parseVars == <<record, parsed>>
otherVars == <<car, taken, tool>>
vars == <<pc, pipeVars, decVars, ioVars, parseVars, otherVars>>

None == <<>>
Some(v) == <<v>>

(***************************************************************************)
(* Program constants.                                                      *)
(***************************************************************************)
TYPE_DFA_TRANSITION == 0
TYPE_MEALY_TRANSITION == 1
TYPE_STATE_DECL == 2
TYPE_NFA_MULTI == 3
EPSILON_INPUT == 65535
MAX_STATES == 65535
MAX_INPUTS == 65534
MAX_OUTPUTS == 65535
RECORD_CHARS == 20

(***************************************************************************)
(* Record codec: format_record and parse_record.                           *)
(***************************************************************************)
HexUpper == <<"0","1","2","3","4","5","6","7","8","9","A","B","C","D","E","F">>
HexLower == <<"0","1","2","3","4","5","6","7","8","9","a","b","c","d","e","f">>
HexChars == {HexUpper[i] : i \in 1..16} \cup {HexLower[i] : i \in 1..16}

DigitVal(c) == (CHOOSE i \in 1..16 : HexUpper[i] = c \/ HexLower[i] = c) - 1

RECURSIVE HexStr(_)
\* the upper-case hex digits of n >= 0, without padding
HexStr(n) == IF n < 16 THEN <<HexUpper[n + 1]>>
             ELSE HexStr(n \div 16) \o <<HexUpper[(n % 16) + 1]>>

RECURSIVE ZeroPad(_, _)
ZeroPad(s, w) == IF Len(s) >= w THEN s ELSE ZeroPad(<<"0">> \o s, w)

\* Python's f"{v:04X}": at least 4 characters, the sign counted in the width,
\* more than 4 when the value needs them
Fmt04X(v) == IF v < 0 THEN <<"-">> \o ZeroPad(HexStr(-v), 3)
             ELSE ZeroPad(HexStr(v), 4)

format_record(rec_type, field1, field2, field3, field4) ==
    Fmt04X(rec_type) \o <<" ">> \o Fmt04X(field1) \o <<":">> \o Fmt04X(field2)
        \o <<" ">> \o Fmt04X(field3) \o <<":">> \o Fmt04X(field4)

RECURSIVE HexValue(_)
HexValue(ds) == IF ds = <<>> THEN 0
                ELSE 16 * HexValue(SubSeq(ds, 1, Len(ds) - 1)) + DigitVal(ds[Len(ds)])

IsHexChar(c) == c \in HexChars

\* digits with single underscores between them
IntBodyOk(s) ==
    /\ Len(s) > 0
    /\ s[1] # "_"
    /\ s[Len(s)] # "_"
    /\ \A i \in 1..Len(s) : IsHexChar(s[i]) \/ s[i] = "_"
    /\ \A i \in 1..(Len(s) - 1) : ~(s[i] = "_" /\ s[i + 1] = "_")

\* Python's int(s, 16) on a text without white space: an optional sign, an
\* optional 0x/0X prefix (one underscore may follow it), then the digits.
\* [ok |-> FALSE] stands for the ValueError it raises.
int16(s) ==
    LET signed == Len(s) > 0 /\ s[1] \in {"+", "-"}
        s1 == IF signed THEN Tail(s) ELSE s
        prefixed == Len(s1) >= 2 /\ s1[1] = "0" /\ s1[2] \in {"x", "X"}
        s2 == IF prefixed THEN SubSeq(s1, 3, Len(s1)) ELSE s1
        s3 == IF prefixed /\ Len(s2) > 0 /\ s2[1] = "_" THEN Tail(s2) ELSE s2
        mag == HexValue(SelectSeq(s3, IsHexChar))
    IN IF IntBodyOk(s3)
       THEN [ok |-> TRUE, v |-> IF signed /\ s[1] = "-" THEN -mag ELSE mag]
       ELSE [ok |-> FALSE, v |-> 0]

NotSeparator(c) == c # " " /\ c # ":"

\* record.replace(" ", "").replace(":", "")
Clean(text) == SelectSeq(text, NotSeparator)

ParseError == [ok |-> FALSE, f |-> <<>>]

\* parse_record of fsm_converter.py; [ok |-> FALSE] stands for a ValueError
parse_record(text) ==
    LET clean == Clean(text)
        g(k) == int16(SubSeq(clean, 4 * k + 1, 4 * k + 4))
    IN IF Len(clean) # RECORD_CHARS THEN ParseError
       ELSE IF \E k \in 0..4 : ~g(k).ok THEN ParseError
       ELSE [ok |-> TRUE, f |-> <<g(0).v, g(1).v, g(2).v, g(3).v, g(4).v>>]

\* parse_record of fsm_visualise.py (lines 122-131): no test of the length;
\* a slice ends where the text ends
visualise_parse_record(text) ==
    LET clean == Clean(text)
        upto(n) == IF n < Len(clean) THEN n ELSE Len(clean)
        g(k) == int16(SubSeq(clean, 4 * k + 1, upto(4 * k + 4)))
    IN IF \E k \in 0..4 : ~g(k).ok THEN ParseError
       ELSE [ok |-> TRUE, f |-> <<g(0).v, g(1).v, g(2).v, g(3).v, g(4).v>>]

(***************************************************************************)
(* The FSM structure.  A model is a record                                 *)
(*   [fsm_type, states, alphabet, initial, accepting, transitions,         *)
(*    state_outputs, output_alphabet]                                      *)
(* states, alphabet and output_alphabet are sequences of names, initial is *)
(* None or Some(name), accepting is the set of the names listed (the code  *)
(* only tests membership), state_outputs is a function from names to       *)
(* names, and a transition is [from, input, to, output] with input and     *)
(* output None or Some(name) and to the sequence of its targets (a single  *)
(* name given as a string being the one-element sequence, line 199).       *)
(* name and description are carried through unchanged and are left out.    *)
(***************************************************************************)
Range(seq) == {seq[i] : i \in 1..Len(seq)}

\* s in the lookup table built from list
Defined(list, s) == \E i \in 1..Len(list) : list[i] = s

Raise(kind, what, count) == [ok |-> FALSE, kind |-> kind, what |-> what, count |-> count]

\* json_to_fsm with the state limit one lower: a table of MAX_STATES states is
\* refused
json_to_fsm_tight(d) ==
    IF Len(d.states) >= MAX_STATES
    THEN Raise("ValueError", "states", Len(d.states))
    ELSE IF Len(d.alphabet) > MAX_INPUTS
    THEN Raise("ValueError", "input symbols", Len(d.alphabet))
    ELSE IF Len(d.output_alphabet) > MAX_OUTPUTS
    THEN Raise("ValueError", "output symbols", Len(d.output_alphabet))
    ELSE [ok |-> TRUE, fsm |-> d]

\* json_to_fsm with the output limit one higher: a table of MAX_OUTPUTS + 1
\* output symbols is taken
json_to_fsm_wide(d) ==
    IF Len(d.states) > MAX_STATES
    THEN Raise("ValueError", "states", Len(d.states))
    ELSE IF Len(d.alphabet) > MAX_INPUTS
    THEN Raise("ValueError", "input symbols", Len(d.alphabet))
    ELSE IF Len(d.output_alphabet) > MAX_OUTPUTS + 1
    THEN Raise("ValueError", "output symbols", Len(d.output_alphabet))
    ELSE [ok |-> TRUE, fsm |-> d]

\* json_to_fsm: the structure is taken over as it is, then the three sizes
\* are checked in this order
json_to_fsm(d) ==
    IF Len(d.states) > MAX_STATES
    THEN Raise("ValueError", "states", Len(d.states))
    ELSE IF Len(d.alphabet) > MAX_INPUTS
    THEN Raise("ValueError", "input symbols", Len(d.alphabet))
    ELSE IF Len(d.output_alphabet) > MAX_OUTPUTS
    THEN Raise("ValueError", "output symbols", Len(d.output_alphabet))
    ELSE [ok |-> TRUE, fsm |-> d]

\* {s: i for i, s in enumerate(list)}[s]: the last position of s, from 0
Index(list, s) ==
    (CHOOSE i \in 1..Len(list) :
        list[i] = s /\ \A j \in (i + 1)..Len(list) : list[j] # s) - 1

\* A dict whose keys are ids is the list of its values by id, the value of
\* id i at position i + 1, with NoKey where the dict has no such key (the
\* names of the checked models are never empty).
NoKey == ""

\* {i: s for s, i in idx.items()}: the names by id.  An id has a name when
\* it is the id the lookup table gives (the last position of the name), so
\* every id has one when the names are unique
ReverseMap(list) ==
    IF Cardinality(Range(list)) = Len(list)
    THEN list
    ELSE [p \in 1..Len(list) |->
            IF \A j \in (p + 1)..Len(list) : list[j] # list[p]
            THEN list[p] ELSE NoKey]

\* the flags with the two bits exchanged
StateFlagsSwapped(f, s) ==
    (IF f.initial = Some(s) THEN 2 ELSE 0) + (IF s \in f.accepting THEN 1 ELSE 0)

\* state_flags[s]: bit 0 = initial, bit 1 = accepting
StateFlags(f, s) ==
    (IF f.initial = Some(s) THEN 1 ELSE 0) + (IF s \in f.accepting THEN 2 ELSE 0)

\* the output field without the offset: the id itself
MooreOutNoOffset(f, s) ==
    IF s \in DOMAIN f.state_outputs /\ Defined(f.output_alphabet, f.state_outputs[s])
    THEN Index(f.output_alphabet, f.state_outputs[s])
    ELSE 0

\* the output field of a Moore state declaration: id + 1, 0 for no output
MooreOut(f, s) ==
    IF s \in DOMAIN f.state_outputs /\ Defined(f.output_alphabet, f.state_outputs[s])
    THEN Index(f.output_alphabet, f.state_outputs[s]) + 1
    ELSE 0

\* the ids in descending order
RECURSIVE SortedDescending(_)
SortedDescending(S) ==
    IF S = {} THEN <<>>
    ELSE LET m == CHOOSE x \in S : \A y \in S : x >= y
         IN <<m>> \o SortedDescending(S \ {m})

RECURSIVE SortedSeq(_)
SortedSeq(S) ==
    IF S = {} THEN <<>>
    ELSE LET m == CHOOSE x \in S : \A y \in S : x <= y
         IN <<m>> \o SortedSeq(S \ {m})

\* a declaration for every state of every kind
DeclFieldsAll(f) ==
    [p \in 1..Len(f.states) |->
        <<TYPE_STATE_DECL, Index(f.states, f.states[p]), StateFlags(f, f.states[p]),
          IF f.fsm_type = "moore" THEN MooreOut(f, f.states[p]) ELSE 0, 0>>]

\* the state declarations, lines 166-185: one per state for Moore, one per
\* state with non-zero flags otherwise, in the order of fsm.states
DeclFields(f) ==
    IF f.fsm_type = "moore"
    THEN [p \in 1..Len(f.states) |->
            <<TYPE_STATE_DECL, Index(f.states, f.states[p]),
              StateFlags(f, f.states[p]), MooreOut(f, f.states[p]), 0>>]
    ELSE LET flagged == SortedSeq({p \in 1..Len(f.states) :
                                      StateFlags(f, f.states[p]) # 0})
         IN [k \in 1..Len(flagged) |->
               <<TYPE_STATE_DECL, Index(f.states, f.states[flagged[k]]),
                 StateFlags(f, f.states[flagged[k]]), 0, 0>>]

\* "eps" stands for the one-character marker U+03B5 of line 193
IsEpsilon(inp_sym) == inp_sym = None \/ inp_sym = Some("epsilon") \/ inp_sym = Some("eps")

\* lines 191-196: the input field of a transition
InputField(f, t) ==
    IF IsEpsilon(t.input) THEN EPSILON_INPUT ELSE Index(f.alphabet, t.input[1])

\* output_idx.get(t.get("output", ""), 0)
MealyOut(f, t) ==
    LET key == IF t.output = None THEN "" ELSE t.output[1]
    IN IF Defined(f.output_alphabet, key) THEN Index(f.output_alphabet, key) ELSE 0

\* the continuation inverted: 1 for the last target only
ContInverted(i, n) == IF i < n THEN 0 ELSE 1

\* continuation: 1 for every target but the last
Cont(i, n) == IF i < n THEN 1 ELSE 0

\* lines 188-218: the records of one transition
TransFields(f, t) ==
    LET src == Index(f.states, t.from)
        inp == InputField(f, t)
        targets == t.to
    IN IF f.fsm_type = "mealy"
       THEN << <<TYPE_MEALY_TRANSITION, src, inp, Index(f.states, targets[1]),
                 MealyOut(f, t)>> >>
       ELSE IF Len(targets) = 1
       THEN << <<TYPE_DFA_TRANSITION, src, inp, Index(f.states, targets[1]), 0>> >>
       ELSE [i \in 1..Len(targets) |->
               <<TYPE_NFA_MULTI, src, inp, Index(f.states, targets[i]),
                 Cont(i, Len(targets))>>]

RECURSIVE AllTransFields(_, _)
AllTransFields(f, ts) ==
    IF ts = <<>> THEN <<>>
    ELSE TransFields(f, Head(ts)) \o AllTransFields(f, Tail(ts))

\* the field tuples fsm_to_hex hands to format_record, in emission order
EncodeFields(f) == DeclFields(f) \o AllTransFields(f, f.transitions)

FormatAll(fields) ==
    [i \in 1..Len(fields) |->
        format_record(fields[i][1], fields[i][2], fields[i][3], fields[i][4], fields[i][5])]

\* a lookup of fsm_to_hex that raises KeyError (IndexError for an empty
\* target list of a Mealy transition)
EncodeRaises(f) ==
    \E k \in 1..Len(f.transitions) :
        \E t \in {f.transitions[k]} :
           \/ ~Defined(f.states, t.from)
           \/ ~IsEpsilon(t.input) /\ ~Defined(f.alphabet, t.input[1])
           \/ IF f.fsm_type = "mealy"
              THEN t.to = <<>> \/ ~Defined(f.states, t.to[1])
              ELSE \E i \in 1..Len(t.to) : ~Defined(f.states, t.to[i])

(***************************************************************************)
(* hex_to_fsm: the scan of the records (lines 246-334).  The decoder keeps *)
(* ids; a transition of the scan is [from, input, to, multi, output]: to   *)
(* is the sequence of target ids, multi tells that the code holds a list   *)
(* (an NFA group) and not a single id, output is None when the dict has no *)
(* "output" key.  state_outputs is the dict as a sequence of <<key, value>>*)
(* pairs in insertion order.  nfa_pending is None or <<src, inp, targets>>.*)
(***************************************************************************)
Bit0(flags) == flags % 2 = 1
Bit1(flags) == (flags \div 2) % 2 = 1

\* d[k] = v on a dict kept as a sequence of pairs
DictSet(d, k, v) ==
    IF \E i \in 1..Len(d) : d[i][1] = k
    THEN [i \in 1..Len(d) |-> IF d[i][1] = k THEN <<k, v>> ELSE d[i]]
    ELSE Append(d, <<k, v>>)

\* the input of a transition without the sentinel test
InputOfRaw(inp) == Some(inp)

InputOf(inp) == IF inp # EPSILON_INPUT THEN Some(inp) ELSE None

\* no input id is ever collected
InputIdsKept(inp) == input_ids

InputIdsWith(inp) == IF inp # EPSILON_INPUT THEN input_ids \cup {inp} ELSE input_ids

\* the transition a pending group becomes when it is completed
PendingTrans(p) ==
    [from |-> p[1], input |-> InputOf(p[2]), to |-> p[3], multi |-> TRUE, output |-> None]

\* lines 263-273
OnStateDecl(f) ==
    LET state_id == f[2]
        flags == f[3]
        output_val == f[4]
    IN /\ state_ids' = state_ids \cup {state_id}
       /\ initial_state' = IF Bit0(flags) THEN Some(state_id) ELSE initial_state
       /\ accepting_states' = IF Bit1(flags) THEN accepting_states \cup {state_id}
                              ELSE accepting_states
       /\ has_moore_outputs' = (has_moore_outputs \/ output_val # 0)
       /\ state_outputs' = IF output_val # 0
                           THEN DictSet(state_outputs, state_id, output_val - 1)
                           ELSE state_outputs
       /\ output_ids' = IF output_val # 0 THEN output_ids \cup {output_val - 1}
                        ELSE output_ids
       /\ UNCHANGED <<input_ids, has_mealy, has_nfa_multi, transitions, nfa_pending>>

\* lines 275-285
OnDfaTransition(f) ==
    LET src == f[2]
        inp == f[3]
        tgt == f[4]
    IN /\ state_ids' = state_ids \cup {src, tgt}
       /\ input_ids' = InputIdsWith(inp)
       /\ transitions' = Append(transitions,
              [from |-> src, input |-> InputOf(inp), to |-> <<tgt>>,
               multi |-> FALSE, output |-> None])
       /\ UNCHANGED <<output_ids, has_mealy, has_nfa_multi, has_moore_outputs,
                      initial_state, accepting_states, state_outputs, nfa_pending>>

\* lines 287-300
OnMealyTransition(f) ==
    LET src == f[2]
        inp == f[3]
        tgt == f[4]
        out == f[5]
    IN /\ has_mealy' = TRUE
       /\ state_ids' = state_ids \cup {src, tgt}
       /\ input_ids' = InputIdsWith(inp)
       /\ output_ids' = output_ids \cup {out}
       /\ transitions' = Append(transitions,
              [from |-> src, input |-> InputOf(inp), to |-> <<tgt>>,
               multi |-> FALSE, output |-> Some(out)])
       /\ UNCHANGED <<has_nfa_multi, has_moore_outputs, initial_state,
                      accepting_states, state_outputs, nfa_pending>>

\* a pending group that every record starts anew
PendingAfterRestart(p, src, inp, tgt) == <<src, inp, <<tgt>> >>

\* lines 310-319: the pending group after this record, and the transitions
\* after an implicit completion of the group it replaces
PendingAfter(p, src, inp, tgt) ==
    IF p = None \/ p[1] # src \/ p[2] # inp
    THEN <<src, inp, <<tgt>> >>
    ELSE <<p[1], p[2], Append(p[3], tgt)>>

\* a change of group that drops the group it replaces
FlushedNever(ts, p, src, inp) == ts

FlushedOnChange(ts, p, src, inp) ==
    IF p # None /\ (p[1] # src \/ p[2] # inp) THEN Append(ts, PendingTrans(p)) ELSE ts

\* lines 302-327
OnNfaMulti(f) ==
    LET src == f[2]
        inp == f[3]
        tgt == f[4]
        cont == f[5]
        pend == PendingAfter(nfa_pending, src, inp, tgt)
        ts == FlushedOnChange(transitions, nfa_pending, src, inp)
    IN /\ has_nfa_multi' = TRUE
       /\ state_ids' = state_ids \cup {src, tgt}
       /\ input_ids' = InputIdsWith(inp)
       /\ transitions' = IF cont = 0 THEN Append(ts, PendingTrans(pend)) ELSE ts
       /\ nfa_pending' = IF cont = 0 THEN None ELSE pend
       /\ UNCHANGED <<output_ids, has_mealy, has_moore_outputs, initial_state,
                      accepting_states, state_outputs>>

(***************************************************************************)
(* hex_to_fsm: type inference, name resolution and the FSM returned (lines *)
(* 225-244 and 329-399).  A label table is None or Some of a record        *)
(* [type, states, inputs, outputs]: type is None or Some(kind), the three  *)
(* others are dicts keyed by ids (keys already converted by int(k, 16)),   *)
(* each a list as ReverseMap gives it.                                     *)
(***************************************************************************)
EmptyDict == <<>>

state_labels(L) == IF L = None THEN EmptyDict ELSE L[1].states
input_labels(L) == IF L = None THEN EmptyDict ELSE L[1].inputs
output_labels(L) == IF L = None THEN EmptyDict ELSE L[1].outputs
meta_type(L) == IF L = None THEN None ELSE L[1].type

\* key in dict, for a dict whose keys are ids
HasKey(d, i) == i >= 0 /\ i < Len(d) /\ d[i + 1] # NoKey

state_name(L, i) ==
    IF HasKey(state_labels(L), i) THEN state_labels(L)[i + 1] ELSE "S" \o ToString(i)

input_name(L, i) ==
    IF HasKey(input_labels(L), i) THEN input_labels(L)[i + 1] ELSE "i" \o ToString(i)

output_name(L, i) ==
    IF HasKey(output_labels(L), i) THEN output_labels(L)[i + 1] ELSE "o" \o ToString(i)

\* lines 329-334: the transitions once a still pending group is completed
FinalTransitions ==
    IF nfa_pending # None THEN Append(transitions, PendingTrans(nfa_pending))
    ELSE transitions

\* the inference with the Moore test before the Mealy test
InferTypeMooreFirst(mealy, moore, multi, ts) ==
    IF moore THEN "moore"
    ELSE IF mealy THEN "mealy"
    ELSE IF multi \/ \E k \in 1..Len(ts) : ts[k].input = None THEN "nfa"
    ELSE "dfa"

\* lines 336-344
InferType(mealy, moore, multi, ts) ==
    IF mealy THEN "mealy"
    ELSE IF moore THEN "moore"
    ELSE IF multi \/ \E k \in 1..Len(ts) : ts[k].input = None THEN "nfa"
    ELSE "dfa"

\* lines 346-348: the label table's type, when it gives a non-empty one
FsmType(L, inferred) ==
    IF meta_type(L) # None /\ meta_type(L) # Some("") THEN meta_type(L)[1]
    ELSE inferred

\* lines 369-382
NamedTransition(L, t) ==
    [from |-> state_name(L, t.from),
     input |-> IF t.input # None THEN Some(input_name(L, t.input[1])) ELSE None,
     to |-> [i \in 1..Len(t.to) |-> state_name(L, t.to[i])],
     multi |-> t.multi,
     output |-> IF t.output # None THEN Some(output_name(L, t.output[1])) ELSE None]

\* lines 360-366: the names of the ids met, in ascending order of the ids
StateNames(L) ==
    [k \in 1..Cardinality(state_ids) |-> state_name(L, SortedSeq(state_ids)[k])]

InputNames(L) ==
    [k \in 1..Cardinality(input_ids) |-> input_name(L, SortedSeq(input_ids)[k])]

OutputNames(L) ==
    [k \in 1..Cardinality(output_ids) |-> output_name(L, SortedSeq(output_ids)[k])]

\* line 397: {state_map[k]: output_map[v] for k, v in state_outputs.items()};
\* when two keys have the same name the later one stays
NamedOutputs(L, d) ==
    LET names == {state_name(L, d[i][1]) : i \in 1..Len(d)}
        last(n) == CHOOSE i \in 1..Len(d) :
                      /\ state_name(L, d[i][1]) = n
                      /\ \A j \in (i + 1)..Len(d) : state_name(L, d[j][1]) # n
    IN [n \in names |-> output_name(L, d[last(n)][2])]

\* lines 336-399: the FSM hex_to_fsm returns at the end of the scan
BuildFsm(L) ==
    LET ts == FinalTransitions
        fsm_type == FsmType(L, InferType(has_mealy, has_moore_outputs, has_nfa_multi, ts))
    IN [fsm_type |-> fsm_type,
        states |-> StateNames(L),
        alphabet |-> InputNames(L),
        initial |-> IF initial_state = None THEN None
                    ELSE Some(state_name(L, initial_state[1])),
        accepting |-> {state_name(L, s) : s \in accepting_states},
        transitions |-> [k \in 1..Len(ts) |-> NamedTransition(L, ts[k])],
        state_outputs |-> IF fsm_type = "moore" THEN NamedOutputs(L, state_outputs)
                          ELSE EmptyDict,
        output_alphabet |-> OutputNames(L)]

(***************************************************************************)
(* Bounds of the checked inputs.                                           *)
(***************************************************************************)
MaxStates == 2          \* states of a bounded model
MaxInputs == 1          \* input symbols of a bounded model
MaxOutputs == 2         \* output symbols of a bounded model
MaxTrans == 2           \* transitions of a bounded model
MaxMooreTrans == 1      \* transitions of a bounded Moore model
MaxTargets == 2         \* targets of one transition
MaxChain == 3           \* targets of the transition of a one-transition model
MaxRecords == 3         \* records of a fed record stream
MaxId == 1              \* largest state, input and output id of a fed record

Kinds == {"dfa", "nfa", "moore", "mealy"}

\* the names "<p>0", "<p>1", ... of a table of n symbols, as a list
Table(p, n) == SubSeq([i \in 1..n |-> p \o ToString(i - 1)], 1, n)

Optional(S) == {None} \cup {Some(x) : x \in S}

SeqsUpTo(S, n) == UNION {[1..k -> S] : k \in 0..n}

SeqsFrom1(S, n) == UNION {[1..k -> S] : k \in 1..n}

\* the transitions a model of this kind may hold: every reference defined,
\* one target for dfa, moore and mealy, an output for mealy only
TransitionsOf(kind, states, alphabet, outputs) ==
    [from : Range(states),
     input : {None, Some("epsilon")} \cup {Some(a) : a \in Range(alphabet)},
     to : SeqsFrom1(Range(states), IF kind = "nfa" THEN MaxTargets ELSE 1),
     output : IF kind = "mealy" THEN {Some(o) : o \in Range(outputs)} ELSE {None}]

PartialFunctions(D, R) == UNION {[X -> R] : X \in SUBSET D}

ModelsOf(kind, states, alphabet, outputs) ==
    [fsm_type : {kind},
     states : {states},
     alphabet : {alphabet},
     initial : Optional(Range(states)),
     accepting : SUBSET Range(states),
     transitions : SeqsUpTo(TransitionsOf(kind, states, alphabet, outputs),
                            IF kind = "moore" THEN MaxMooreTrans ELSE MaxTrans),
     state_outputs : IF kind = "moore"
                     THEN PartialFunctions(Range(states), Range(outputs))
                     ELSE {EmptyDict},
     output_alphabet : {outputs}]

\* the valid models within the bounds
BoundedModels ==
    UNION {ModelsOf(kind, Table("q", ns), Table("a", na), Table("y", no)) :
              kind \in {"moore", "mealy"}, ns \in 0..MaxStates,
              na \in 0..MaxInputs, no \in 0..MaxOutputs}
    \cup
    UNION {ModelsOf(kind, Table("q", ns), Table("a", na), <<>>) :
              kind \in {"dfa", "nfa"}, ns \in 0..MaxStates, na \in 0..MaxInputs}

\* models of one transition with a longer target list; fsm_to_hex takes the
\* chain branch (lines 213-218) for every kind but mealy
ChainModels ==
    LET states == Table("q", MaxStates)
        alphabet == Table("a", MaxInputs)
    IN [fsm_type : {"dfa", "nfa", "moore"},
        states : {states},
        alphabet : {alphabet},
        initial : Optional(Range(states)),
        accepting : SUBSET Range(states),
        transitions : {<<t>> : t \in
            [from : Range(states),
             input : {None, Some("epsilon")} \cup {Some(a) : a \in Range(alphabet)},
             to : UNION {[1..k -> Range(states)] : k \in (MaxTargets + 1)..MaxChain},
             output : {None}]},
        state_outputs : {EmptyDict},
        output_alphabet : {<<>>}]

\* models at the capacity limits: the last state, input symbol and output
\* symbol of full tables are referred to
LastOf(list) == list[Len(list)]

LimitModel(kind, states, alphabet, outputs) ==
    [fsm_type |-> kind,
     states |-> states,
     alphabet |-> alphabet,
     initial |-> Some(LastOf(states)),
     accepting |-> {LastOf(states)},
     transitions |->
        << [from |-> LastOf(states), input |-> Some(LastOf(alphabet)),
            to |-> IF kind = "nfa" THEN <<states[1], LastOf(states)>>
                   ELSE <<LastOf(states)>>,
            output |-> IF kind = "mealy" THEN Some(LastOf(outputs)) ELSE None],
           [from |-> states[1], input |-> None, to |-> <<LastOf(states)>>,
            output |-> IF kind = "mealy" THEN Some(outputs[1]) ELSE None] >>,
     state_outputs |-> IF kind = "moore"
                       THEN [s \in {LastOf(states)} |-> LastOf(outputs)]
                       ELSE EmptyDict,
     output_alphabet |-> outputs]

LimitModels ==
    {LimitModel(kind, Table("q", ns), Table("a", na), Table("y", no)) :
        kind \in {"nfa", "mealy"},
        ns \in {MAX_STATES, MAX_STATES + 1},
        na \in {MAX_INPUTS, MAX_INPUTS + 1, MAX_INPUTS + 2},
        no \in {MAX_OUTPUTS, MAX_OUTPUTS + 1}}
    \cup
    {LimitModel("moore", Table("q", MaxStates), Table("a", na), Table("y", no)) :
        na \in {MAX_INPUTS, MAX_INPUTS + 1},
        no \in {MAX_OUTPUTS, MAX_OUTPUTS + 1}}

(***************************************************************************)
(* The state machine.                                                      *)
(***************************************************************************)
\* the locals of hex_to_fsm as lines 246-258 set them
\* no reverse maps yet
NoMaps == [state_names |-> EmptyDict, input_names |-> EmptyDict, output_names |-> EmptyDict]

DecoderStart ==
    /\ state_ids = {} /\ input_ids = {} /\ output_ids = {}
    /\ has_mealy = FALSE /\ has_nfa_multi = FALSE /\ has_moore_outputs = FALSE
    /\ initial_state = None /\ accepting_states = {}
    /\ state_outputs = EmptyDict /\ transitions = <<>> /\ nfa_pending = None

Idle ==
    /\ fsm = None /\ error = None /\ emitted = <<>>
    /\ reverse_maps = NoMaps
    /\ records = <<>> /\ labels = None /\ pos = 0 /\ result = None
    /\ record = <<>> /\ parsed = None
    /\ car = None /\ taken = None /\ tool = "converter"
    /\ DecoderStart

\* a structured description is about to be converted and read back
Init ==
    /\ pc = "start"
    /\ \E m \in BoundedModels \cup ChainModels : data = Some(m)
    /\ Idle

\* json_to_fsm (lines 71-94)
JsonToFsm ==
    /\ pc = "start"
    /\ LET r == json_to_fsm(data[1])
       IN IF r.ok
          THEN /\ fsm' = Some(r.fsm) /\ pc' = "built" /\ UNCHANGED error
          ELSE /\ error' = Some(r) /\ pc' = "error" /\ UNCHANGED fsm
    /\ UNCHANGED <<data, emitted, reverse_maps,
                   decVars, ioVars, parseVars, otherVars>>

\* fsm_to_hex (lines 142-220); its records are handed to hex_to_fsm
FsmToHex ==
    /\ pc = "built"
    /\ IF EncodeRaises(fsm[1])
       THEN /\ error' = Some(Raise("KeyError", "lookup", 0))
            /\ pc' = "error"
            /\ UNCHANGED <<emitted, records, reverse_maps>>
       ELSE /\ emitted' = EncodeFields(fsm[1])
            /\ records' = FormatAll(emitted')
            /\ reverse_maps' = [state_names |-> ReverseMap(fsm[1].states),
                                input_names |-> ReverseMap(fsm[1].alphabet),
                                output_names |-> ReverseMap(fsm[1].output_alphabet)]
            /\ pc' = "decode"
            /\ UNCHANGED error
    /\ UNCHANGED <<data, fsm, labels, pos, result, decVars, parseVars, otherVars>>

\* one iteration of the loop of line 260 on the next record, parsed once
\* (line 261)
Scanning == pc = "decode" /\ pos < Len(records)

\* line 261, with the parse_record of the program that runs
ParsedNext ==
    IF tool = "visualise" THEN visualise_parse_record(records[pos + 1])
    ELSE parse_record(records[pos + 1])

Consumed ==
    /\ pos' = pos + 1
    /\ UNCHANGED <<pc, pipeVars, records, labels, result, parseVars, otherVars>>

DecodeStateDecl ==
    /\ Scanning
    /\ \E p \in {ParsedNext} :
          p.ok /\ p.f[1] = TYPE_STATE_DECL /\ OnStateDecl(p.f)
    /\ Consumed

DecodeDfaTransition ==
    /\ Scanning
    /\ \E p \in {ParsedNext} :
          p.ok /\ p.f[1] = TYPE_DFA_TRANSITION /\ OnDfaTransition(p.f)
    /\ Consumed

DecodeMealyTransition ==
    /\ Scanning
    /\ \E p \in {ParsedNext} :
          p.ok /\ p.f[1] = TYPE_MEALY_TRANSITION /\ OnMealyTransition(p.f)
    /\ Consumed

DecodeNfaMulti ==
    /\ Scanning
    /\ \E p \in {ParsedNext} :
          p.ok /\ p.f[1] = TYPE_NFA_MULTI /\ OnNfaMulti(p.f)
    /\ Consumed

\* a record of another type read as a state declaration
DecodeOtherAsDecl ==
    /\ Scanning
    /\ \E p \in {ParsedNext} :
          /\ p.ok
          /\ p.f[1] \notin {TYPE_STATE_DECL, TYPE_DFA_TRANSITION,
                            TYPE_MEALY_TRANSITION, TYPE_NFA_MULTI}
          /\ OnStateDecl(p.f)
    /\ Consumed

\* a record of another type falls through every branch of lines 263-327
DecodeOther ==
    /\ Scanning
    /\ \E p \in {ParsedNext} :
          /\ p.ok
          /\ p.f[1] \notin {TYPE_STATE_DECL, TYPE_DFA_TRANSITION,
                            TYPE_MEALY_TRANSITION, TYPE_NFA_MULTI}
    /\ UNCHANGED decVars
    /\ Consumed

\* parse_record raises: hex_to_fsm ends with that error
DecodeFails ==
    /\ Scanning
    /\ ~ParsedNext.ok
    /\ error' = Some(Raise("ValueError", "record", pos))
    /\ pc' = "error"
    /\ UNCHANGED <<data, fsm, emitted, reverse_maps,
                   decVars, ioVars, parseVars, otherVars>>

\* the end of hex_to_fsm (lines 329-399) with label table L.  The scan never
\* reads the label table, so it is fixed here, where it is first used.
Finish(L) ==
    /\ pc = "decode"
    /\ pos = Len(records)
    /\ labels' = L
    /\ transitions' = FinalTransitions
    /\ result' = Some(BuildFsm(L))
    /\ pc' = "done"
    /\ UNCHANGED <<pipeVars, records, pos, parseVars, otherVars, state_ids, input_ids,
                   output_ids, has_mealy, has_nfa_multi, has_moore_outputs,
                   initial_state, accepting_states, state_outputs, nfa_pending>>

\* the label table made of the reverse maps of fsm_to_hex, with the [fsm]
\* type of generate_labels_toml (line 433) or without it
OwnLabels(with_type) ==
    Some([type |-> IF with_type THEN Some(fsm[1].fsm_type) ELSE None,
          states |-> reverse_maps.state_names,
          inputs |-> reverse_maps.input_names,
          outputs |-> reverse_maps.output_names])

FinishRoundTrip == fsm # None /\ \E with_type \in BOOLEAN : Finish(OwnLabels(with_type))

Next ==
    \/ JsonToFsm
    \/ FsmToHex
    \/ DecodeStateDecl
    \/ DecodeDfaTransition
    \/ DecodeMealyTransition
    \/ DecodeNfaMulti
    \/ FinishRoundTrip

Spec == Init /\ [][Next]_vars

\* the same conversion, also of the models at the capacity limits
InitCapacity ==
    /\ pc = "start"
    /\ \E m \in BoundedModels \cup ChainModels \cup LimitModels : data = Some(m)
    /\ Idle

SpecCapacity == InitCapacity /\ [][Next]_vars

(***************************************************************************)
(* hex_to_fsm on any record stream: the records are fed one by one, each   *)
(* in the layout parse_hex_input gives them (line 421), and the stream may *)
(* end after any of them.                                                  *)
(***************************************************************************)
TYPE_UNKNOWN == 4       \* a record type the decoder has no branch for

FedIds == 0..MaxId                      \* declared states, targets, outputs
FedSources == {MaxId}                   \* sources of fed transitions
FedInputs == {0, EPSILON_INPUT}
FedFlags == 0..3
FedOutputFields == {0, MaxId + 1}       \* output field of a state declaration

FedFields ==
    {<<TYPE_STATE_DECL, s, fl, o, 0>> : s \in FedIds, fl \in FedFlags, o \in FedOutputFields}
    \cup {<<TYPE_DFA_TRANSITION, s, i, t, 0>> : s \in FedSources, i \in FedInputs, t \in FedIds}
    \cup {<<TYPE_MEALY_TRANSITION, s, i, t, o>> :
             s \in FedSources, i \in FedInputs, t \in FedIds, o \in FedIds}
    \cup {<<TYPE_NFA_MULTI, s, i, t, c>> :
             s \in FedSources, i \in FedInputs, t \in FedIds, c \in {0, 1}}
    \cup {<<TYPE_UNKNOWN, MaxId, 0, MaxId, 1>>}

FedRecords == {format_record(f[1], f[2], f[3], f[4], f[5]) : f \in FedFields}

\* label tables given with a fed stream: none, a complete one, and partial
\* ones whose names are also names the decoder synthesizes
FedLabels ==
    {None,
     Some([type |-> None,
           states |-> [p \in 1..(MaxId + 1) |-> "q" \o ToString(p - 1)],
           inputs |-> <<"a0">>,
           outputs |-> [p \in 1..(MaxId + 1) |-> "y" \o ToString(p - 1)]]),
     Some([type |-> Some("moore"),
           states |-> <<"S" \o ToString(MaxId)>>,
           inputs |-> EmptyDict,
           outputs |-> <<"o" \o ToString(MaxId)>>]),
     Some([type |-> Some("dfa"),
           states |-> [p \in 1..(MaxId + 1) |-> "q" \o ToString(p - 1)],
           inputs |-> <<"a0">>,
           outputs |-> EmptyDict])}

InitStream ==
    /\ pc = "decode"
    /\ data = None
    /\ Idle

\* the caller's list holds one more record
FeedRecord ==
    /\ data = None /\ fsm = None
    /\ pc = "decode"
    /\ pos = Len(records)
    /\ Len(records) < MaxRecords
    /\ \E r \in FedRecords : records' = Append(records, r)
    /\ UNCHANGED <<pc, pipeVars, decVars, labels, pos, result, parseVars, otherVars>>

FinishStream == data = None /\ fsm = None /\ \E L \in FedLabels : Finish(L)

NextStream ==
    \/ FeedRecord
    \/ DecodeStateDecl
    \/ DecodeDfaTransition
    \/ DecodeMealyTransition
    \/ DecodeNfaMulti
    \/ DecodeOther
    \/ FinishStream

SpecStream == InitStream /\ [][NextStream]_vars

(***************************************************************************)
(* parse_record on a single text: the canonical text of a record, or that  *)
(* text with one character replaced, removed or inserted.                  *)
(***************************************************************************)
CanonicalTexts == {format_record(0, 1, 2, 3, 4), format_record(3, 65535, 171, 10, 1)}

EditChars == {"0", "9", "A", "f", "G", "+", "-", "_", "x", " ", ":"}

Replaced(t, i, c) == [t EXCEPT ![i] = c]
Removed(t, i) == SubSeq(t, 1, i - 1) \o SubSeq(t, i + 1, Len(t))
Inserted(t, i, c) == SubSeq(t, 1, i - 1) \o <<c>> \o SubSeq(t, i, Len(t))

ParseTexts ==
    CanonicalTexts
    \cup {Replaced(t, i, c) : t \in CanonicalTexts, i \in 1..24, c \in EditChars}
    \cup {Removed(t, i) : t \in CanonicalTexts, i \in 1..24}
    \cup {Inserted(t, i, c) : t \in CanonicalTexts, i \in 1..25, c \in EditChars}

InitParse ==
    /\ pc = "parse"
    /\ data = None
    /\ fsm = None /\ error = None /\ emitted = <<>>
    /\ reverse_maps = NoMaps
    /\ records = <<>> /\ labels = None /\ pos = 0 /\ result = None
    /\ DecoderStart
    /\ record \in ParseTexts
    /\ parsed = None
    /\ car = None /\ taken = None /\ tool = "converter"

\* one call of parse_record (lines 127-139)
ParseRecord ==
    /\ pc = "parse"
    /\ parsed' = Some(parse_record(record))
    /\ pc' = "parsed"
    /\ UNCHANGED <<pipeVars, decVars, ioVars, record, otherVars>>

NextParse == ParseRecord

SpecParse == InitParse /\ [][NextParse]_vars

(***************************************************************************)
(* Both uses of the codec: a description converted and read back (the      *)
(* one-transition models and the models at the capacity limits), and a     *)
(* record stream of any origin decoded.                                    *)
(***************************************************************************)
InitLimits ==
    /\ pc = "start"
    /\ \E m \in ChainModels \cup LimitModels : data = Some(m)
    /\ Idle

InitAll == InitLimits \/ InitStream

NextAll ==
    \/ JsonToFsm
    \/ FsmToHex
    \/ FinishRoundTrip
    \/ NextStream

SpecAll == InitAll /\ [][NextAll]_vars

(***************************************************************************)
(* The properties.  M is the description handed to json_to_fsm, R the FSM  *)
(* hex_to_fsm returns; ids are counted from the tables of M, not taken     *)
(* from the lookup tables of fsm_to_hex.                                   *)
(***************************************************************************)
NoDuplicates(list) == Cardinality(Range(list)) = Len(list)

\* the inputs that stand for "no input symbol"
EpsilonInputs == {None, Some("epsilon"), Some("eps")}

\* the id of a name: its position in its table, from 0
IdOf(list, s) == CHOOSE i \in 0..(Len(list) - 1) : list[i + 1] = s

InputIdOf(m, t) == IF t.input \in EpsilonInputs THEN 65535 ELSE IdOf(m.alphabet, t.input[1])

\* the number of state declarations in front of the transition records
DeclCount(m) ==
    IF m.fsm_type = "moore" THEN Len(m.states)
    ELSE Cardinality({p \in 1..Len(m.states) :
                         m.initial = Some(m.states[p]) \/ m.states[p] \in m.accepting})

RecordCount(m, t) == IF m.fsm_type = "mealy" THEN 1 ELSE Len(t.to)

\* the position of the first record of the k-th transition
RECURSIVE FirstRecord(_, _)
FirstRecord(m, k) ==
    IF k = 1 THEN DeclCount(m) + 1
    ELSE FirstRecord(m, k - 1) + RecordCount(m, m.transitions[k - 1])

Encoded == pc = "decode" /\ pos = 0 /\ fsm # None

\* C1: after a round trip with the model's own labels, R's states, alphabet
\* and output alphabet hold exactly the names of M's, none lost and none
\* duplicated, also the names nothing refers to.
C1_SymbolSetsKept ==
    pc = "done" =>
        /\ Range(result[1].states) = Range(fsm[1].states)
        /\ Range(result[1].alphabet) = Range(fsm[1].alphabet)
        /\ Range(result[1].output_alphabet) = Range(fsm[1].output_alphabet)
        /\ NoDuplicates(result[1].states)
        /\ NoDuplicates(result[1].alphabet)
        /\ NoDuplicates(result[1].output_alphabet)

C3_AttributesKept ==
    pc = "done" =>
        /\ result[1].initial = fsm[1].initial
        /\ result[1].accepting = fsm[1].accepting
        /\ fsm[1].fsm_type = "moore" => result[1].state_outputs = fsm[1].state_outputs

\* a Moore machine with an initial state, an accepting state and an output
\* on one state of two, read back without a type in the labels
C3_Witness ==
    /\ pc = "done"
    /\ fsm[1].fsm_type = "moore"
    /\ labels[1].type = None
    /\ fsm[1].initial = Some("q1")
    /\ fsm[1].accepting = {"q0"}
    /\ DOMAIN fsm[1].state_outputs = {"q1"}
    /\ result[1].initial = Some("q1")
    /\ result[1].accepting = {"q0"}
    /\ DOMAIN result[1].state_outputs = {"q1"}

\* C4: for a non-Mealy model a transition with k >= 2 targets is written as
\* k NFA_MULTI records in a row, all with the transition's source and input,
\* the targets in list order, continuation 1 on the first k-1 and 0 on the
\* last; once the decoder has read those k records its list holds exactly
\* one more transition, with that source, that input and those targets in
\* that order, and no group is pending.
C4_ChainContiguity ==
    (pc \in {"decode", "done"} /\ fsm # None /\ fsm[1].fsm_type # "mealy") =>
        \A k \in 1..Len(fsm[1].transitions) :
           \E t \in {fsm[1].transitions[k]} :
              Len(t.to) >= 2 =>
                 \E first \in {FirstRecord(fsm[1], k)} :
                    /\ \A i \in 1..Len(t.to) :
                          emitted[first + i - 1] =
                             <<3, IdOf(fsm[1].states, t.from), InputIdOf(fsm[1], t),
                               IdOf(fsm[1].states, t.to[i]),
                               IF i < Len(t.to) THEN 1 ELSE 0>>
                    /\ (pc = "decode" /\ pos = first + Len(t.to) - 1) =>
                          /\ Len(transitions) = k
                          /\ nfa_pending = None
                          /\ transitions[k] =
                                [from |-> IdOf(fsm[1].states, t.from),
                                 input |-> IF t.input \in EpsilonInputs THEN None
                                           ELSE Some(IdOf(fsm[1].alphabet, t.input[1])),
                                 to |-> [i \in 1..Len(t.to) |-> IdOf(fsm[1].states, t.to[i])],
                                 multi |-> TRUE,
                                 output |-> None]

\* a stream of exactly three records, the chain of one transition with three
\* targets, decoded to that one transition
C4_Witness ==
    /\ pc = "done"
    /\ Len(emitted) = 3
    /\ fsm[1].transitions = << [from |-> "q1", input |-> Some("a0"),
                                to |-> <<"q1", "q0", "q0">>, output |-> None] >>
    /\ emitted[1][5] = 1 /\ emitted[2][5] = 1 /\ emitted[3][5] = 0
    /\ Len(result[1].transitions) = 1
    /\ result[1].transitions[1].to = <<"q1", "q0", "q0">>

\* a transition record with the sentinel in its input field
EpsilonRecord(f) == f[1] \in {0, 1, 3} /\ f[3] = 65535

\* every record of every transition carries 65535 when the transition has no
\* input symbol and the id of its symbol, which is not 65535, when it has one
EncoderEpsilon ==
    Encoded =>
        \A k \in 1..Len(fsm[1].transitions) :
           \E t \in {fsm[1].transitions[k]} : \E first \in {FirstRecord(fsm[1], k)} :
              \A i \in 0..(RecordCount(fsm[1], t) - 1) :
                 /\ emitted[first + i][3] = InputIdOf(fsm[1], t)
                 /\ emitted[first + i][3] = 65535 <=> t.input \in EpsilonInputs

\* 65535 is never an input id, no transition has it as its input, and at the
\* end a group still pending on the sentinel is a transition without input
DecoderEpsilon ==
    /\ 65535 \notin input_ids
    /\ \A k \in 1..Len(transitions) : transitions[k].input # Some(65535)
    /\ pc = "done" =>
          /\ \A k \in 1..Len(transitions) :
                result[1].transitions[k].input = None <=> transitions[k].input = None
          /\ Len(result[1].alphabet) = Cardinality(input_ids)
          /\ (nfa_pending # None /\ nfa_pending[2] = 65535) =>
                transitions[Len(transitions)] =
                   [from |-> nfa_pending[1], input |-> None, to |-> nfa_pending[3],
                    multi |-> TRUE, output |-> None]

\* reading a record with the sentinel adds no input id; the transition it
\* completes has no input, and a group it leaves pending is on the sentinel
EpsilonScan ==
    (pc = "decode" /\ pos < Len(records) /\ pos' = pos + 1) =>
        \A p \in {parse_record(records[pos + 1])} :
           EpsilonRecord(p.f) =>
              /\ input_ids' = input_ids
              /\ IF p.f[1] = 3 /\ p.f[5] # 0
                 THEN nfa_pending' # None /\ nfa_pending'[2] = 65535
                 ELSE transitions'[Len(transitions')].input = None

\* a group pending on the sentinel that another group replaces becomes a
\* transition without input
EpsilonFlush ==
    (/\ nfa_pending # None /\ nfa_pending[2] = 65535
     /\ nfa_pending' # None
     /\ <<nfa_pending'[1], nfa_pending'[2]>> # <<nfa_pending[1], nfa_pending[2]>>) =>
        transitions'[Len(transitions) + 1] =
           [from |-> nfa_pending[1], input |-> None, to |-> nfa_pending[3],
            multi |-> TRUE, output |-> None]

\* C5: the encoder writes 0xFFFF in the input field of every record of a
\* transition without input symbol (absent or the epsilon marker) and never
\* for an alphabet symbol; the decoder, on a DFA, Mealy or NFA_MULTI record
\* with input field 0xFFFF, adds no input id and gives the transition an
\* absent input, so that no alphabet name is resolved from id 0xFFFF.
C5_EpsilonHandling ==
    /\ [](EncoderEpsilon /\ DecoderEpsilon)
    /\ [][EpsilonScan /\ EpsilonFlush]_vars

\* a stream read to its end: a chain on the sentinel left open by a record of
\* another input, then a DFA record on the sentinel; the first and the third
\* transition have no input and the alphabet holds the one symbol of the
\* second record
C5_Witness ==
    /\ pc = "done"
    /\ data = None
    /\ Len(records) = 3
    /\ parse_record(records[1]).f = <<3, 1, 65535, 0, 1>>
    /\ parse_record(records[2]).f[1] = 3
    /\ parse_record(records[2]).f[3] = 0
    /\ parse_record(records[3]).f = <<0, 1, 65535, 1, 0>>
    /\ Len(result[1].alphabet) = 1
    /\ result[1].transitions[1].input = None
    /\ result[1].transitions[1].multi
    /\ Len(result[1].transitions) = 3
    /\ result[1].transitions[3].input = None

HasOutput(m, p) == m.states[p] \in DOMAIN m.state_outputs

\* C6: for a Moore model the declaration record of a state whose output symbol
\* has id n carries output field n + 1 and that of a state without output
\* carries 0; the decoder, having read the declaration, holds output id n for
\* the first and no output at all (not output id 0) for the second.
C6_MooreOutputOffset ==
    (pc \in {"decode", "done"} /\ fsm # None /\ fsm[1].fsm_type = "moore") =>
        \A p \in 1..Len(fsm[1].states) :
           /\ emitted[p][1] = 2
           /\ emitted[p][2] = p - 1
           /\ emitted[p][4] =
                 IF HasOutput(fsm[1], p)
                 THEN IdOf(fsm[1].output_alphabet, fsm[1].state_outputs[fsm[1].states[p]]) + 1
                 ELSE 0
           /\ pos >= p =>
                 IF HasOutput(fsm[1], p)
                 THEN \E i \in 1..Len(state_outputs) :
                         state_outputs[i] =
                            <<p - 1, IdOf(fsm[1].output_alphabet,
                                          fsm[1].state_outputs[fsm[1].states[p]])>>
                 ELSE \A i \in 1..Len(state_outputs) : state_outputs[i][1] # p - 1

\* the first state without output, the second with the output symbol of id 1:
\* fields 0 and 2, read back as one entry, state 1 -> output 1
C6_Witness ==
    /\ pc = "done"
    /\ fsm[1].fsm_type = "moore"
    /\ Len(fsm[1].states) = 2
    /\ DOMAIN fsm[1].state_outputs = {"q1"}
    /\ fsm[1].state_outputs["q1"] = "y1"
    /\ emitted[1][4] = 0
    /\ emitted[2][4] = 2
    /\ state_outputs = << <<1, 1>> >>

\* C7: json_to_fsm takes a description of up to 65535 states, 65534 input
\* symbols and 65535 output symbols; with one more of any of them it raises
\* an error that names the category (the first one over its limit) and the
\* count, and returns no FSM.
C7_CapacityBoundary ==
    (pc # "start" /\ data # None) =>
        \E ns \in {Len(data[1].states)} : \E na \in {Len(data[1].alphabet)} :
        \E no \in {Len(data[1].output_alphabet)} :
           IF ns > 65535
           THEN /\ fsm = None
                /\ error = Some([ok |-> FALSE, kind |-> "ValueError",
                                 what |-> "states", count |-> ns])
           ELSE IF na > 65534
           THEN /\ fsm = None
                /\ error = Some([ok |-> FALSE, kind |-> "ValueError",
                                 what |-> "input symbols", count |-> na])
           ELSE IF no > 65535
           THEN /\ fsm = None
                /\ error = Some([ok |-> FALSE, kind |-> "ValueError",
                                 what |-> "output symbols", count |-> no])
           ELSE /\ fsm = data
                /\ error = None \/ error[1].kind # "ValueError"

\* a description with every table exactly at its limit is taken
C7_Witness ==
    /\ pc = "built"
    /\ Len(data[1].states) = 65535
    /\ Len(data[1].alphabet) = 65534
    /\ Len(data[1].output_alphabet) = 65535
    /\ fsm = data
    /\ error = None

\* C8: parse_record returns five fields exactly when, spaces and colons
\* removed, 20 characters remain and each of them is a hex digit; in every
\* other case it fails.
C8_ParseStrict ==
    pc = "parsed" =>
        (parsed[1].ok <=>
            /\ Len(Clean(record)) = 20
            /\ \A i \in 1..Len(Clean(record)) : Clean(record)[i] \in HexChars)

\* C9: every field of every record fsm_to_hex emits for an accepted model is
\* in 0..65535, the text of the record has exactly 20 hex digits, and
\* parse_record gives back the five fields format_record was given.
C9_FieldRange ==
    Encoded =>
        \A i \in 1..Len(emitted) :
           /\ \A j \in 1..5 : emitted[i][j] \in 0..65535
           /\ Len(Clean(records[i])) = 20
           /\ \A c \in 1..Len(Clean(records[i])) : Clean(records[i])[c] \in HexChars
           /\ parse_record(records[i]) = [ok |-> TRUE, f |-> emitted[i]]

\* a Moore model with 65535 output symbols and 65534 input symbols: a
\* declaration with output field 65535 and a transition on input id 65533,
\* both read back as written
C9_Witness ==
    /\ Encoded
    /\ \E i \in 1..Len(emitted) :
          /\ emitted[i][1] = 2
          /\ emitted[i][4] = 65535
          /\ parse_record(records[i]).f[4] = 65535
    /\ \E i \in 1..Len(emitted) :
          /\ emitted[i][1] = 0
          /\ emitted[i][3] = 65533
          /\ parse_record(records[i]).f[3] = 65533

SawMealy == \E i \in 1..Len(records) : parse_record(records[i]).f[1] = 1

SawStateOutput ==
    \E i \in 1..Len(records) :
       parse_record(records[i]).f[1] = 2 /\ parse_record(records[i]).f[4] # 0

SawMulti == \E i \in 1..Len(records) : parse_record(records[i]).f[1] = 3

SawEpsilon == \E i \in 1..Len(records) : EpsilonRecord(parse_record(records[i]).f)

\* C10: the kind of the FSM returned is the type of the label table when the
\* table gives one; otherwise mealy if a MEALY_TRANSITION record was read,
\* else moore if a state declaration had a non-zero output field, else nfa if
\* an NFA_MULTI record was read or a transition has no input, else dfa.
C10_TypePriority ==
    pc = "done" =>
        result[1].fsm_type =
           IF labels # None /\ labels[1].type # None THEN labels[1].type[1]
           ELSE IF SawMealy THEN "mealy"
           ELSE IF SawStateOutput THEN "moore"
           ELSE IF SawMulti \/ SawEpsilon THEN "nfa"
           ELSE "dfa"

\* a stream with a Mealy transition and a declaration with an output, read
\* with a label table without type: mealy
C10_Witness ==
    /\ pc = "done"
    /\ data = None
    /\ labels # None
    /\ labels[1].type = None
    /\ SawMealy
    /\ SawStateOutput
    /\ result[1].fsm_type = "mealy"

(***************************************************************************)
(* Descriptions whose references may name a symbol no table holds:         *)
(* json_to_fsm takes the fields over without looking at them (lines 73-84) *)
(* and fsm_to_hex looks the names up one by one.                           *)
(***************************************************************************)
Undefined == "zz"

LooseTransitions(kind, states, alphabet, outputs) ==
    [from : Range(states) \cup {Undefined},
     input : {None} \cup {Some(a) : a \in Range(alphabet) \cup {Undefined}},
     to : SeqsFrom1(Range(states) \cup {Undefined}, IF kind = "nfa" THEN MaxTargets ELSE 1),
     output : IF kind = "mealy" THEN {Some(o) : o \in Range(outputs) \cup {Undefined}}
              ELSE {None}]

LooseModelsOf(kind, states, alphabet, outputs) ==
    [fsm_type : {kind},
     states : {states},
     alphabet : {alphabet},
     initial : Optional(Range(states) \cup {Undefined}),
     accepting : SUBSET (Range(states) \cup {Undefined}),
     transitions : SeqsUpTo(LooseTransitions(kind, states, alphabet, outputs), 1),
     state_outputs : IF kind = "moore"
                     THEN PartialFunctions(Range(states) \cup {Undefined},
                                           Range(outputs) \cup {Undefined})
                     ELSE {EmptyDict},
     output_alphabet : {outputs}]

LooseModels ==
    UNION {LooseModelsOf(kind, Table("q", 1), Table("a", 1), Table("y", 1)) : kind \in Kinds}

InitLoose ==
    /\ pc = "start"
    /\ \E m \in LooseModels : data = Some(m)
    /\ Idle

SpecLoose == InitLoose /\ [][Next]_vars

\* a reference of the description to a name its table does not hold
UndefinedReference(m) ==
    \/ m.initial # None /\ ~Defined(m.states, m.initial[1])
    \/ \E s \in m.accepting : ~Defined(m.states, s)
    \/ \E s \in DOMAIN m.state_outputs :
          ~Defined(m.states, s) \/ ~Defined(m.output_alphabet, m.state_outputs[s])
    \/ \E k \in 1..Len(m.transitions) :
          \/ ~Defined(m.states, m.transitions[k].from)
          \/ m.transitions[k].input \notin EpsilonInputs
                /\ ~Defined(m.alphabet, m.transitions[k].input[1])
          \/ \E i \in 1..Len(m.transitions[k].to) :
                ~Defined(m.states, m.transitions[k].to[i])
          \/ m.transitions[k].output # None
                /\ ~Defined(m.output_alphabet, m.transitions[k].output[1])

\* C11: a description with a reference to a name absent from its table is
\* refused by json_to_fsm or by fsm_to_hex with an error, and no records are
\* produced for it.
C11_UndefinedRejected ==
    (data # None /\ UndefinedReference(data[1]) /\ pc \notin {"start", "built"}) =>
        /\ pc = "error"
        /\ error # None
        /\ records = <<>>

\* C12: whatever the label table, two different ids of a category never get
\* the same name, so the states, the alphabet and the output alphabet of the
\* FSM returned hold no name twice and as many names as ids were met.
C12_NamesDistinct ==
    pc = "done" =>
        /\ NoDuplicates(result[1].states)
        /\ NoDuplicates(result[1].alphabet)
        /\ NoDuplicates(result[1].output_alphabet)
        /\ \A i, j \in state_ids : i # j => state_name(labels, i) # state_name(labels, j)
        /\ \A i, j \in input_ids : i # j => input_name(labels, i) # input_name(labels, j)
        /\ \A i, j \in output_ids : i # j => output_name(labels, i) # output_name(labels, j)

\* the fields of the i-th record of the stream
FieldsOf(i) == parse_record(records[i]).f

\* the ids a record with fields f mentions, by category
StatesIn(f) ==
    IF f[1] = 2 THEN {f[2]} ELSE IF f[1] \in {0, 1, 3} THEN {f[2], f[4]} ELSE {}

InputsIn(f) == IF f[1] \in {0, 1, 3} /\ f[3] # 65535 THEN {f[3]} ELSE {}

OutputsIn(f) ==
    IF f[1] = 1 THEN {f[5]} ELSE IF f[1] = 2 /\ f[4] # 0 THEN {f[4] - 1} ELSE {}

MentionedStates == UNION {StatesIn(FieldsOf(i)) : i \in 1..Len(records)}

MentionedInputs == UNION {InputsIn(FieldsOf(i)) : i \in 1..Len(records)}

MentionedOutputs == UNION {OutputsIn(FieldsOf(i)) : i \in 1..Len(records)}

\* the place of id i among the ids S in ascending order
Rank(S, i) == Cardinality({j \in S : j <= i})

\* C13: the states, the alphabet and the output alphabet of the FSM returned
\* hold the names of exactly the ids the records mention, each once, in
\* ascending order of the ids, whatever the order of the records.
C13_AscendingIds ==
    pc = "done" =>
        /\ \E S \in {MentionedStates} :
              /\ Len(result[1].states) = Cardinality(S)
              /\ \A i \in S : result[1].states[Rank(S, i)] = state_name(labels, i)
        /\ \E S \in {MentionedInputs} :
              /\ Len(result[1].alphabet) = Cardinality(S)
              /\ \A i \in S : result[1].alphabet[Rank(S, i)] = input_name(labels, i)
        /\ \E S \in {MentionedOutputs} :
              /\ Len(result[1].output_alphabet) = Cardinality(S)
              /\ \A i \in S :
                    result[1].output_alphabet[Rank(S, i)] = output_name(labels, i)

\* state 1 and output 1 are declared before state 0 and output 0 appear
C13_Witness ==
    /\ pc = "done"
    /\ data = None
    /\ labels = None
    /\ Len(records) = 2
    /\ FieldsOf(1) = <<2, 1, 0, 2, 0>>
    /\ FieldsOf(2) = <<1, 1, 0, 0, 0>>
    /\ result[1].states = <<"S0", "S1">>
    /\ result[1].output_alphabet = <<"o0", "o1">>

\* the flags of the p-th state of description m
FlagsOf(m, p) ==
    (IF m.initial = Some(m.states[p]) THEN 1 ELSE 0)
    + (IF m.states[p] \in m.accepting THEN 2 ELSE 0)

\* the states of m that get a declaration
Declared(m) ==
    IF m.fsm_type = "moore" THEN 1..Len(m.states)
    ELSE {p \in 1..Len(m.states) : FlagsOf(m, p) # 0}

\* C14: the state declarations are the first records, one for every state of
\* a Moore model and one for every state with non-zero flags of any other
\* model, in the order of the states; each carries the position of the state
\* as its id, bit 0 for initial, bit 1 for accepting, and output field 0
\* unless the model is Moore; no other record is a declaration.  The decoder
\* ends with the initial state and the accepting states of the description,
\* so a state without declaration is neither.
C14_StateDeclarations ==
    (pc \in {"decode", "done"} /\ fsm # None) =>
        \E D \in {Declared(fsm[1])} :
           /\ \A p \in D :
                 \E f \in {emitted[Rank(D, p)]} :
                    /\ f[1] = 2
                    /\ f[2] = p - 1
                    /\ f[3] = FlagsOf(fsm[1], p)
                    /\ fsm[1].fsm_type # "moore" => f[4] = 0
                    /\ f[5] = 0
           /\ \A i \in 1..Len(emitted) : emitted[i][1] = 2 <=> i <= Cardinality(D)
           /\ pc = "done" =>
                 /\ accepting_states =
                       {p - 1 : p \in {q \in 1..Len(fsm[1].states) :
                                          fsm[1].states[q] \in fsm[1].accepting}}
                 /\ \A p \in 1..Len(fsm[1].states) :
                       initial_state = Some(p - 1) <=> fsm[1].initial = Some(fsm[1].states[p])
                 /\ initial_state = None <=> fsm[1].initial = None

\* two states in use, the second initial and accepting: one declaration, and
\* the first state is read back as neither
C14_Witness ==
    /\ pc = "done"
    /\ fsm[1].fsm_type = "nfa"
    /\ fsm[1].initial = Some("q1")
    /\ fsm[1].accepting = {"q1"}
    /\ Len(fsm[1].transitions) = 1
    /\ emitted[1] = <<2, 1, 3, 0, 0>>
    /\ emitted[2][1] # 2
    /\ state_ids = {0, 1}
    /\ initial_state = Some(1)
    /\ accepting_states = {1}
    /\ result[1].accepting = {"q1"}

\* the (source, input, target) triples of the multi-target transitions of ts,
\* in order
RECURSIVE MultiTriples(_)
MultiTriples(ts) ==
    IF ts = <<>> THEN <<>>
    ELSE (IF Head(ts).multi
          THEN [k \in 1..Len(Head(ts).to) |-> <<Head(ts).from, Head(ts).input, Head(ts).to[k]>>]
          ELSE <<>>)
         \o MultiTriples(Tail(ts))

\* the (source, input, target) triples of the NFA_MULTI records among the
\* first k records
RECURSIVE NfaTriples(_)
NfaTriples(k) ==
    IF k = 0 THEN <<>>
    ELSE \* the fields of the k-th record
         LET f == FieldsOf(k)
         IN NfaTriples(k - 1)
            \o (IF f[1] = 3
                THEN << <<f[2], IF f[3] = 65535 THEN None ELSE Some(f[3]), f[4]>> >>
                ELSE <<>>)

\* a group of targets as the transition it is completed to
GroupTransition(src, inp, targets) ==
    [from |-> src, input |-> IF inp = 65535 THEN None ELSE Some(inp), to |-> targets,
     multi |-> TRUE, output |-> None]

\* the transitions the decoder has or will have for the records read so far
TransitionsSoFar ==
    IF pc = "decode" /\ nfa_pending # None
    THEN Append(transitions, GroupTransition(nfa_pending[1], nfa_pending[2], nfa_pending[3]))
    ELSE transitions

\* every target of an NFA_MULTI record read is in one multi-target transition
\* with the source and input of its record, in stream order
NfaTargetsKept ==
    pc \in {"decode", "done"} => MultiTriples(TransitionsSoFar) = NfaTriples(pos)

\* one NFA_MULTI record: a record of another group completes the pending group
\* and starts a group of its own target, a record of the pending group appends
\* its target, continuation 0 completes the group and empties the slot
NfaGroupStep ==
    (pc = "decode" /\ pos < Len(records) /\ pos' = pos + 1) =>
        \A f \in {FieldsOf(pos + 1)} :
           f[1] = 3 =>
              \E same \in {nfa_pending # None /\ nfa_pending[1] = f[2] /\ nfa_pending[2] = f[3]} :
              \E grp \in {IF same THEN Append(nfa_pending[3], f[4]) ELSE <<f[4]>>} :
              \E before \in {IF nfa_pending # None /\ ~same
                             THEN Append(transitions,
                                         GroupTransition(nfa_pending[1], nfa_pending[2],
                                                         nfa_pending[3]))
                             ELSE transitions} :
                 IF f[5] = 0
                 THEN /\ transitions' = Append(before, GroupTransition(f[2], f[3], grp))
                      /\ nfa_pending' = None
                 ELSE /\ transitions' = before
                      /\ nfa_pending' = <<f[2], f[3], grp>>

\* the end of the stream completes a group still pending as the last transition
NfaGroupEnd ==
    (pc = "decode" /\ pc' = "done") =>
        transitions' =
           IF nfa_pending # None
           THEN Append(transitions,
                       GroupTransition(nfa_pending[1], nfa_pending[2], nfa_pending[3]))
           ELSE transitions

\* C15: an NFA_MULTI record of another (source, input) than the pending group
\* completes that group as one transition and starts a group of its own
\* target; a record of the pending group appends its target; continuation 0
\* completes the group and empties the slot; a group pending at the end of the
\* stream is completed as the last transition.  So the targets of the
\* NFA_MULTI records of any stream are, in stream order, the targets of the
\* decoded multi-target transitions, each under the source and input of its
\* record.
C15_PendingGroup == []NfaTargetsKept /\ [][NfaGroupStep /\ NfaGroupEnd]_vars

\* two records of one group, then a record of another group left pending at
\* the end of the stream: two transitions
C15_Witness ==
    /\ pc = "done"
    /\ Len(records) = 3
    /\ \A i \in 1..3 : FieldsOf(i)[1] = 3 /\ FieldsOf(i)[5] = 1
    /\ FieldsOf(1)[3] = 0 /\ FieldsOf(2)[3] = 0 /\ FieldsOf(3)[3] = 65535
    /\ transitions = <<GroupTransition(1, 0, <<0, 1>>), GroupTransition(1, 65535, <<0>>)>>

(***************************************************************************)
(* The text of machine.hex: format_hex_output (lines 402-408) writes the   *)
(* records in rows, parse_hex_input (lines 411-424) scans them back.  The  *)
(* text is held in record, the list written in records, the list scanned   *)
(* in result.                                                              *)
(***************************************************************************)
\* characters matched by \s and removed by strip()
IsSpace(c) == c \in {" ", "\t", "\n", "\r"}

\* sep.join(parts)
RECURSIVE Join(_, _)
Join(sep, parts) ==
    IF parts = <<>> THEN <<>>
    ELSE IF Len(parts) = 1 THEN parts[1]
    ELSE parts[1] \o sep \o Join(sep, Tail(parts))

\* text.split("\n")
RECURSIVE SplitLines(_)
SplitLines(text) ==
    IF \A i \in 1..Len(text) : text[i] # "\n" THEN <<text>>
    ELSE LET i == CHOOSE k \in 1..Len(text) :
                     text[k] = "\n" /\ \A j \in 1..(k - 1) : text[j] # "\n"
         IN <<SubSeq(text, 1, i - 1)>> \o SplitLines(SubSeq(text, i + 1, Len(text)))

\* records[i:i+width] for i in range(0, len(records), width)
RECURSIVE Rows(_, _)
Rows(rs, width) ==
    IF rs = <<>> THEN <<>>
    ELSE IF Len(rs) <= width THEN <<rs>>
    ELSE <<SubSeq(rs, 1, width)>> \o Rows(SubSeq(rs, width + 1, Len(rs)), width)

RECURSIVE JoinedRows(_)
JoinedRows(rows) ==
    IF rows = <<>> THEN <<>>
    ELSE <<Join(<<" ", " ", " ">>, Head(rows))>> \o JoinedRows(Tail(rows))

format_hex_output(rs, width) == Join(<<"\n">>, JoinedRows(Rows(rs, width)))

\* a comment test without the strip()
IsCommentUnstripped(line) == line # <<>> /\ line[1] = "#"

\* line.strip().startswith("#")
IsComment(line) ==
    \E i \in 1..Len(line) : line[i] = "#" /\ \A j \in 1..(i - 1) : IsSpace(line[j])

NotComment(line) == ~IsComment(line)

\* [0-9A-Fa-f]{4} at position i
HexGroup(text, i) == i + 3 <= Len(text) /\ \A k \in 0..3 : IsHexChar(text[i + k])

CharAt(text, i, c) == i <= Len(text) /\ text[i] = c

\* \s* from position i: the position after the white space
RECURSIVE SkipSpace(_, _)
SkipSpace(text, i) ==
    IF i <= Len(text) /\ IsSpace(text[i]) THEN SkipSpace(text, i + 1) ELSE i

\* str.upper() of a group of hex digits
Upper(s) == [k \in 1..Len(s) |-> HexUpper[DigitVal(s[k]) + 1]]

\* the pattern of line 416 at position i: None, or the positions of its five
\* groups and the position after the match
MatchAt(text, i) ==
    LET b == SkipSpace(text, i + 4)
        c == b + 5
        d == SkipSpace(text, c + 4)
        e == d + 5
    IN IF /\ HexGroup(text, i)
          /\ HexGroup(text, b) /\ CharAt(text, b + 4, ":")
          /\ HexGroup(text, c)
          /\ HexGroup(text, d) /\ CharAt(text, d + 4, ":")
          /\ HexGroup(text, e)
       THEN Some(<<i, b, c, d, e, e + 4>>)
       ELSE None

\* line 421
MatchRecord(text, m) ==
    Upper(SubSeq(text, m[1], m[1] + 3)) \o <<" ">>
    \o Upper(SubSeq(text, m[2], m[2] + 3)) \o <<":">>
    \o Upper(SubSeq(text, m[3], m[3] + 3)) \o <<" ">>
    \o Upper(SubSeq(text, m[4], m[4] + 3)) \o <<":">>
    \o Upper(SubSeq(text, m[5], m[5] + 3))

\* re.finditer from position i: the leftmost matches, none overlapping
RECURSIVE FindAll(_, _)
FindAll(text, i) ==
    IF i > Len(text) THEN <<>>
    ELSE LET m == MatchAt(text, i)
         IN IF m = None THEN FindAll(text, i + 1)
            ELSE <<MatchRecord(text, m[1])>> \o FindAll(text, m[1][6])

parse_hex_input(text) == FindAll(Join(<<"\n">>, SelectSeq(SplitLines(text), NotComment)), 1)

MaxWidth == 3
MaxComments == 2

\* the records written: fixed layout, fields in 0..65535
WrittenRecords ==
    CanonicalTexts \cup {format_record(2, 43981, 65535, 0, 61374)}

\* comment lines, one of them holding the text of a record
CommentLines ==
    {<<"#">>,
     <<" ", "\t", "#", " ">> \o format_record(0, 0, 0, 0, 0)}

\* a line put at position k of the lines of text
WithLine(text, k, line) ==
    LET ls == SplitLines(text)
    IN Join(<<"\n">>, SubSeq(ls, 1, k - 1) \o <<line>> \o SubSeq(ls, k, Len(ls)))

CommentCount(text) == Len(SelectSeq(SplitLines(text), IsComment))

\* other layouts of the same records: lower case, no blank at all, every
\* blank a line break, a hex digit in front, the last character missing
Lowered(text) ==
    [k \in 1..Len(text) |->
        IF IsHexChar(text[k]) THEN HexLower[DigitVal(text[k]) + 1] ELSE text[k]]

NotBlank(c) == ~IsSpace(c)

Packed(text) == SelectSeq(text, NotBlank)

Broken(text) == [k \in 1..Len(text) |-> IF text[k] = " " THEN "\n" ELSE text[k]]

Shifted(text) == <<"f">> \o text

Truncated(text) == SubSeq(text, 1, Len(text) - 1)

ForeignLayouts(text) ==
    {Lowered(text), Packed(text), Broken(text), Shifted(text), Truncated(text),
     Lowered(Shifted(Packed(text)))}

InitText ==
    /\ pc = "text"
    /\ data = None
    /\ fsm = None /\ error = None /\ emitted = <<>>
    /\ reverse_maps = NoMaps
    /\ records \in SeqsUpTo(WrittenRecords, MaxRecords)
    /\ labels = None /\ pos = 0 /\ result = None
    /\ DecoderStart
    /\ record = <<>>
    /\ parsed = None
    /\ car = None /\ taken = None /\ tool = "converter"

\* write_fsm_file: the records written in rows of some width
FormatHexOutput ==
    /\ pc = "text"
    /\ \E width \in 1..MaxWidth : record' = format_hex_output(records, width)
    /\ pc' = "formatted"
    /\ UNCHANGED <<pipeVars, decVars, ioVars, parsed, otherVars>>

\* the file edited: a comment line put between two lines, before the first
\* or after the last
InsertComment ==
    /\ pc = "formatted"
    /\ CommentCount(record) < MaxComments
    /\ \E line \in CommentLines, k \in 1..(Len(SplitLines(record)) + 1) :
          record' = WithLine(record, k, line)
    /\ UNCHANGED <<pc, pipeVars, decVars, ioVars, parsed, otherVars>>

\* a file of another origin: the same records in another layout
ForeignLayout ==
    /\ pc = "formatted"
    /\ record' \in ForeignLayouts(record)
    /\ pc' = "foreign"
    /\ UNCHANGED <<pipeVars, decVars, ioVars, parsed, otherVars>>

\* read_fsm_file, line 517
ParseHexInput ==
    /\ pc \in {"formatted", "foreign"}
    /\ result' = Some(parse_hex_input(record))
    /\ pc' = IF pc = "formatted" THEN "scanned" ELSE "scanned_foreign"
    /\ UNCHANGED <<pipeVars, decVars, records, labels, pos, parseVars, otherVars>>

NextText ==
    \/ FormatHexOutput
    \/ InsertComment
    \/ ForeignLayout
    \/ ParseHexInput

SpecText == InitText /\ [][NextText]_vars

\* the fixed layout: four upper-case hex digits in each of five groups, one
\* blank, one colon, one blank, one colon between them
FixedLayout(r) ==
    /\ Len(r) = 24
    /\ r[5] = " " /\ r[10] = ":" /\ r[15] = " " /\ r[20] = ":"
    /\ \A k \in (1..24) \ {5, 10, 15, 20} : \E h \in 1..16 : r[k] = HexUpper[h]

\* C16: the records written by format_hex_output in rows of any width, with
\* comment lines put anywhere between the lines, are scanned back by
\* parse_hex_input as the same list in the same order; and every record
\* parse_hex_input returns, from a text of any layout, is in the fixed
\* upper-case layout and is accepted by parse_record.
C16_LayoutIndependent ==
    /\ pc = "scanned" => result = Some(records)
    /\ pc \in {"scanned", "scanned_foreign"} =>
          \A k \in 1..Len(result[1]) :
             /\ FixedLayout(result[1][k])
             /\ parse_record(result[1][k]).ok

\* three records in rows of two, a comment holding a record between the rows
\* and a second comment, scanned back
C16_Witness ==
    /\ pc = "scanned"
    /\ Len(records) = 3
    /\ records[1] # records[2]
    /\ \E ls \in {SplitLines(record)} :
          /\ Len(ls) = 4
          /\ Len(ls[1]) = 51
          /\ IsComment(ls[2]) /\ Len(ls[2]) > 24
          /\ IsComment(ls[4])
    /\ result = Some(records)

(***************************************************************************)
(* elevator_fsm.py: generate_fsm (lines 69-125) and the machine its        *)
(* records describe.  The records are held in emitted as field tuples and  *)
(* in records as texts; car is the state the machine is in and taken the   *)
(* record followed last.                                                   *)
(***************************************************************************)
FLOORS == 24

IDLE == 0
UP == 1
DOWN == 2

CLOSED == 0
OPEN == 1

IN_TIMER == 0
IN_DOOR == 1
IN_GO_UP == 2
IN_GO_DOWN == 3
IN_EMERGENCY == 4

OUT_NONE == 0
OUT_DING == 1
OUT_DOOR_OPEN == 2
OUT_DOOR_CLOSE == 3
OUT_MOTOR_UP == 4
OUT_MOTOR_DOWN == 5
OUT_ALARM == 6

TYPE_MEALY == 1

\* lines 59-61
state_index(floor, direction, door) == (floor - 1) * 6 + direction * 2 + door

\* a go-up record without the test for the top floor
GoUpUnguarded(floor, src) ==
    <<TYPE_MEALY, src, IN_GO_UP, state_index(floor + 1, IDLE, CLOSED), OUT_MOTOR_UP>>

\* lines 86-92
GoUp(floor, src) ==
    IF floor < FLOORS
    THEN <<TYPE_MEALY, src, IN_GO_UP, state_index(floor + 1, IDLE, CLOSED), OUT_MOTOR_UP>>
    ELSE <<TYPE_MEALY, src, IN_GO_UP, src, OUT_NONE>>

\* lines 94-100
GoDown(floor, src) ==
    IF floor > 1
    THEN <<TYPE_MEALY, src, IN_GO_DOWN, state_index(floor - 1, IDLE, CLOSED), OUT_MOTOR_DOWN>>
    ELSE <<TYPE_MEALY, src, IN_GO_DOWN, src, OUT_NONE>>

\* lines 79-106: the records of the idle/closed state of a floor
ClosedRecords(floor) ==
    LET src == state_index(floor, IDLE, CLOSED)
    IN << <<TYPE_MEALY, src, IN_DOOR, state_index(floor, IDLE, OPEN), OUT_DOOR_OPEN>>,
          GoUp(floor, src),
          GoDown(floor, src),
          <<TYPE_MEALY, src, IN_TIMER, src, OUT_NONE>>,
          <<TYPE_MEALY, src, IN_EMERGENCY, src, OUT_ALARM>> >>

\* lines 108-123: the records of the idle/open state of a floor
OpenRecords(floor) ==
    LET src == state_index(floor, IDLE, OPEN)
        tgt == state_index(floor, IDLE, CLOSED)
    IN << <<TYPE_MEALY, src, IN_TIMER, tgt, OUT_DOOR_CLOSE>>,
          <<TYPE_MEALY, src, IN_DOOR, tgt, OUT_DOOR_CLOSE>>,
          <<TYPE_MEALY, src, IN_GO_UP, src, OUT_NONE>>,
          <<TYPE_MEALY, src, IN_GO_DOWN, src, OUT_NONE>>,
          <<TYPE_MEALY, src, IN_EMERGENCY, tgt, OUT_ALARM>> >>

\* the loop of line 78 from this floor on
RECURSIVE FloorsFrom(_)
FloorsFrom(floor) ==
    IF floor > FLOORS THEN <<>>
    ELSE ClosedRecords(floor) \o OpenRecords(floor) \o FloorsFrom(floor + 1)

\* lines 69-125, as field tuples
generate_fsm ==
    << <<TYPE_STATE_DECL, state_index(1, IDLE, CLOSED), 1, 0, 0>> >> \o FloorsFrom(1)

InitElevator ==
    /\ pc = "elevator"
    /\ data = None
    /\ Idle

\* generate_fsm; the machine is put in the state its declaration marks initial
GenerateFsm ==
    /\ pc = "elevator"
    /\ emitted' = generate_fsm
    /\ records' = FormatAll(emitted')
    /\ \E k \in 1..Len(emitted') :
          /\ emitted'[k][1] = TYPE_STATE_DECL
          /\ Bit0(emitted'[k][3])
          /\ car' = Some(emitted'[k][2])
    /\ pc' = "generated"
    /\ UNCHANGED <<data, fsm, error, reverse_maps, decVars, labels, pos, result,
                   parseVars, taken, tool>>

\* the machine reads one input: it follows a record of its state and that
\* input, whichever there is
Step ==
    /\ pc = "generated"
    /\ \E inp \in {IN_TIMER, IN_DOOR, IN_GO_UP, IN_GO_DOWN, IN_EMERGENCY} :
       \E k \in 1..Len(emitted) :
          /\ emitted[k][1] = TYPE_MEALY
          /\ emitted[k][2] = car[1]
          /\ emitted[k][3] = inp
          /\ car' = Some(emitted[k][4])
          /\ taken' = Some(emitted[k])
    /\ UNCHANGED <<pc, pipeVars, decVars, ioVars, parseVars, tool>>

NextElevator == GenerateFsm \/ Step

SpecElevator == InitElevator /\ [][NextElevator]_vars

\* floor and door of a state id, and the ids of the idle states
FloorOf(s) == (s \div 6) + 1
DoorOf(s) == s % 2
IdleStates == {6 * (f - 1) + d : f \in 1..24, d \in {0, 1}}

\* the transition records
Mealy == {k \in 1..Len(emitted) : emitted[k][1] = 1}

\* C17: the records generated give, for each of the 48 idle states (floor
\* 1..24, door closed or open) and each of the 5 inputs, exactly one
\* transition; every target is one of the 48 states; the floor changes only
\* on go-up or go-down in a door-closed state, by one floor, into a
\* door-closed state; go-up at floor 24, go-down at floor 1 and a go command
\* with the door open are self-loops with output none; the machine started in
\* (floor 1, idle, closed) is always in one of the 48 states and never
\* follows a record that changes the floor from a door-open state.
C17_ElevatorSafe ==
    pc = "generated" =>
        /\ \A s \in IdleStates, i \in 0..4 :
              Cardinality({k \in Mealy : emitted[k][2] = s /\ emitted[k][3] = i}) = 1
        /\ Cardinality(Mealy) = 48 * 5
        /\ \A k \in Mealy :
              \E src \in {emitted[k][2]}, inp \in {emitted[k][3]},
                 tgt \in {emitted[k][4]}, out \in {emitted[k][5]} :
                 /\ src \in IdleStates /\ tgt \in IdleStates
                 /\ FloorOf(tgt) # FloorOf(src) =>
                       /\ DoorOf(src) = 0 /\ DoorOf(tgt) = 0
                       /\ \/ inp = 2 /\ FloorOf(tgt) = FloorOf(src) + 1
                          \/ inp = 3 /\ FloorOf(tgt) = FloorOf(src) - 1
                 /\ (inp = 2 /\ FloorOf(src) = 24) => (tgt = src /\ out = 0)
                 /\ (inp = 3 /\ FloorOf(src) = 1) => (tgt = src /\ out = 0)
                 /\ (inp \in {2, 3} /\ DoorOf(src) = 1) => (tgt = src /\ out = 0)
        /\ car = Some(0) \/ taken # None
        /\ car[1] \in IdleStates
        /\ taken # None =>
              /\ car = Some(taken[1][4])
              /\ FloorOf(taken[1][4]) # FloorOf(taken[1][2]) => DoorOf(taken[1][2]) = 0

\* the car at the top floor, arrived from floor 23
C17_Witness ==
    /\ pc = "generated"
    /\ car = Some(138)
    /\ taken = Some(<<1, 132, 2, 138, 4>>)

\* the decoder's transitions and pending group after the first k records, were
\* a pending group completed by every record that is not an NFA_MULTI record
RECURSIVE InRecordOrder(_)
InRecordOrder(k) ==
    IF k = 0 THEN [ts |-> <<>>, pend |-> None]
    ELSE \* the k-th record, and the scan before it
         LET f == FieldsOf(k)
             b == InRecordOrder(k - 1)
             inp == IF f[3] = 65535 THEN None ELSE Some(f[3])
             ended == IF b.pend = None THEN b.ts
                      ELSE Append(b.ts, GroupTransition(b.pend[1], b.pend[2], b.pend[3]))
         IN IF f[1] = 0
            THEN [ts |-> Append(ended, [from |-> f[2], input |-> inp, to |-> <<f[4]>>,
                                        multi |-> FALSE, output |-> None]),
                  pend |-> None]
            ELSE IF f[1] = 1
            THEN [ts |-> Append(ended, [from |-> f[2], input |-> inp, to |-> <<f[4]>>,
                                        multi |-> FALSE, output |-> Some(f[5])]),
                  pend |-> None]
            ELSE IF f[1] = 3
            THEN LET same == b.pend # None /\ b.pend[1] = f[2] /\ b.pend[2] = f[3]
                     grp == IF same THEN Append(b.pend[3], f[4]) ELSE <<f[4]>>
                     ts == IF same THEN b.ts ELSE ended
                 IN IF f[5] = 0
                    THEN [ts |-> Append(ts, GroupTransition(f[2], f[3], grp)), pend |-> None]
                    ELSE [ts |-> ts, pend |-> <<f[2], f[3], grp>>]
            ELSE [ts |-> ended, pend |-> None]

\* C18: the decoded transitions are in the order of the first record of each
\* transition, also when a DFA, Mealy or state declaration record arrives
\* while a group is pending: that record ends the group, and NFA_MULTI records
\* separated by another record are not merged into one transition.
C18_RecordOrder ==
    pc = "done" =>
        \E e \in {InRecordOrder(Len(records))} :
           transitions = IF e.pend = None THEN e.ts
                         ELSE Append(e.ts, GroupTransition(e.pend[1], e.pend[2], e.pend[3]))

(***************************************************************************)
(* main with --to-fsm on an .fsm file (lines 565-567 and 574-582): the FSM *)
(* decoded from the file is handed to fsm_to_hex, and the file written     *)
(* from it, with the labels generated from it, is decoded in turn.  fsm    *)
(* holds the FSM decoded first, result the one decoded second.             *)
(***************************************************************************)
MaxReencoded == 2

\* lines 566-567: the FSM returned goes to fsm_to_hex; the next call of
\* hex_to_fsm starts with fresh locals
Reencode ==
    /\ pc = "done"
    /\ data = None /\ fsm = None
    /\ Len(records) <= MaxReencoded
    /\ fsm' = result
    /\ result' = None
    /\ pos' = 0
    /\ state_ids' = {} /\ input_ids' = {} /\ output_ids' = {}
    /\ has_mealy' = FALSE /\ has_nfa_multi' = FALSE /\ has_moore_outputs' = FALSE
    /\ initial_state' = None /\ accepting_states' = {}
    /\ state_outputs' = EmptyDict /\ transitions' = <<>> /\ nfa_pending' = None
    /\ pc' = "built"
    /\ UNCHANGED <<data, error, emitted, reverse_maps, records, labels,
                   parseVars, otherVars>>

\* the file written is decoded with its labels.toml, which always holds the
\* type (lines 431-433)
FinishReencoded == data = None /\ fsm # None /\ Finish(OwnLabels(TRUE))

NextReencode ==
    \/ NextStream
    \/ Reencode
    \/ FsmToHex
    \/ FinishReencoded

SpecReencode == InitStream /\ [][NextReencode]_vars

\* C19: the FSM decoded from any record stream and label table, encoded and
\* decoded again with the labels generated from it, is the same FSM: kind,
\* states, alphabet, output alphabet, initial state, accepting states, state
\* outputs and transitions, also when the stream declares a state with flags
\* 0 that no transition uses.
C19_ReencodeStable ==
    (pc = "done" /\ data = None /\ fsm # None) =>
        /\ result[1].fsm_type = fsm[1].fsm_type
        /\ result[1].states = fsm[1].states
        /\ result[1].alphabet = fsm[1].alphabet
        /\ result[1].output_alphabet = fsm[1].output_alphabet
        /\ result[1].initial = fsm[1].initial
        /\ result[1].accepting = fsm[1].accepting
        /\ result[1].state_outputs = fsm[1].state_outputs
        /\ result[1].transitions = fsm[1].transitions

(***************************************************************************)
(* The two programs on one list of record texts: hex_to_fsm of             *)
(* fsm_converter.py runs first, then hex_to_fsm of fsm_visualise.py (lines *)
(* 134-308, the same statements) with its own parse_record.  fsm holds the *)
(* FSM the first returned, None when it raised.                            *)
(***************************************************************************)
\* records in front of the text under test: a declaration, a Mealy transition
LeadRecords == {format_record(2, 1, 3, 2, 0), format_record(1, 0, 0, 1, 1)}

\* record lists whose last text is canonical or one character away from it
AgreeStreams ==
    {<<r>> : r \in ParseTexts} \cup {<<c, r>> : c \in LeadRecords, r \in ParseTexts}

InitAgree ==
    /\ pc = "decode"
    /\ data = None
    /\ fsm = None /\ error = None /\ emitted = <<>>
    /\ reverse_maps = NoMaps
    /\ records \in AgreeStreams
    /\ labels = None /\ pos = 0 /\ result = None
    /\ DecoderStart
    /\ record = <<>>
    /\ parsed = None
    /\ car = None /\ taken = None /\ tool = "converter"

\* the same list is given to the other program, which starts with fresh locals
Visualise ==
    /\ tool = "converter"
    /\ pc \in {"done", "error"}
    /\ tool' = "visualise"
    /\ fsm' = result
    /\ result' = None
    /\ error' = None
    /\ pos' = 0
    /\ state_ids' = {} /\ input_ids' = {} /\ output_ids' = {}
    /\ has_mealy' = FALSE /\ has_nfa_multi' = FALSE /\ has_moore_outputs' = FALSE
    /\ initial_state' = None /\ accepting_states' = {}
    /\ state_outputs' = EmptyDict /\ transitions' = <<>> /\ nfa_pending' = None
    /\ pc' = "decode"
    /\ UNCHANGED <<data, emitted, reverse_maps, records, labels, parseVars, car, taken>>

\* the other program ends with the label table the first was given
FinishSame == tool = "visualise" /\ fsm # None /\ Finish(labels)

NextAgree ==
    \/ DecodeStateDecl
    \/ DecodeDfaTransition
    \/ DecodeMealyTransition
    \/ DecodeNfaMulti
    \/ DecodeOther
    \/ DecodeFails
    \/ FinishStream
    \/ Visualise
    \/ FinishSame

SpecAgree == InitAgree /\ [][NextAgree]_vars

\* C20: on every list of record texts and every label table, hex_to_fsm of
\* fsm_visualise.py fails exactly when hex_to_fsm of fsm_converter.py fails,
\* and otherwise returns an FSM of the same kind, states, alphabet, output
\* alphabet, initial state, accepting states, state outputs and transitions,
\* also for a text of more than 20 significant hex characters.
C20_DecodersAgree ==
    (tool = "visualise" /\ pc \in {"done", "error"}) =>
        /\ pc = "error" <=> fsm = None
        /\ (pc = "done" /\ fsm # None) =>
              /\ result[1].fsm_type = fsm[1].fsm_type
              /\ result[1].states = fsm[1].states
              /\ result[1].alphabet = fsm[1].alphabet
              /\ result[1].output_alphabet = fsm[1].output_alphabet
              /\ result[1].initial = fsm[1].initial
              /\ result[1].accepting = fsm[1].accepting
              /\ result[1].state_outputs = fsm[1].state_outputs
              /\ result[1].transitions = fsm[1].transitions

\* the fields of the records of a known type among the first k records
RECURSIVE KnownFields(_)
KnownFields(k) ==
    IF k = 0 THEN <<>>
    ELSE IF FieldsOf(k)[1] \in 0..3 THEN Append(KnownFields(k - 1), FieldsOf(k))
    ELSE KnownFields(k - 1)

\* the decoder's locals before the first record
FreshLocals ==
    [states |-> {}, inputs |-> {}, outputs |-> {},
     mealy |-> FALSE, multi |-> FALSE, moore |-> FALSE,
     initial |-> None, accepting |-> {}, state_out |-> EmptyDict,
     ts |-> <<>>, pend |-> None]

\* the decoder's locals after one more record of a known type, with fields f
AfterRecord(b, f) ==
    LET inp == IF f[3] = 65535 THEN None ELSE Some(f[3])
        seen == [b EXCEPT !.states = @ \cup StatesIn(f),
                          !.inputs = @ \cup InputsIn(f),
                          !.outputs = @ \cup OutputsIn(f)]
    IN IF f[1] = 2
       THEN [seen EXCEPT !.initial = IF f[3] % 2 = 1 THEN Some(f[2]) ELSE @,
                         !.accepting = IF (f[3] \div 2) % 2 = 1 THEN @ \cup {f[2]} ELSE @,
                         !.moore = @ \/ f[4] # 0,
                         !.state_out = IF f[4] # 0 THEN DictSet(@, f[2], f[4] - 1) ELSE @]
       ELSE IF f[1] = 0
       THEN [seen EXCEPT !.ts = Append(@, [from |-> f[2], input |-> inp, to |-> <<f[4]>>,
                                           multi |-> FALSE, output |-> None])]
       ELSE IF f[1] = 1
       THEN [seen EXCEPT !.mealy = TRUE,
                         !.ts = Append(@, [from |-> f[2], input |-> inp, to |-> <<f[4]>>,
                                           multi |-> FALSE, output |-> Some(f[5])])]
       ELSE LET same == b.pend # None /\ b.pend[1] = f[2] /\ b.pend[2] = f[3]
                grp == IF same THEN Append(b.pend[3], f[4]) ELSE <<f[4]>>
                ts == IF b.pend # None /\ ~same
                      THEN Append(b.ts, GroupTransition(b.pend[1], b.pend[2], b.pend[3]))
                      ELSE b.ts
            IN [seen EXCEPT !.multi = TRUE,
                            !.ts = IF f[5] = 0
                                   THEN Append(ts, GroupTransition(f[2], f[3], grp))
                                   ELSE ts,
                            !.pend = IF f[5] = 0 THEN None ELSE <<f[2], f[3], grp>>]

\* the decoder's locals after the records with fields fs, all of a known type
RECURSIVE LocalsAfter(_)
LocalsAfter(fs) ==
    IF fs = <<>> THEN FreshLocals
    ELSE AfterRecord(LocalsAfter(SubSeq(fs, 1, Len(fs) - 1)), fs[Len(fs)])

\* the decoder's locals are those of the stream without the records of
\* unknown type
UnknownRemoved ==
    (pc \in {"decode", "done"} /\ data = None /\ fsm = None) =>
        \E b \in {LocalsAfter(KnownFields(pos))} :
           /\ state_ids = b.states /\ input_ids = b.inputs /\ output_ids = b.outputs
           /\ has_mealy = b.mealy /\ has_nfa_multi = b.multi
           /\ has_moore_outputs = b.moore
           /\ initial_state = b.initial /\ accepting_states = b.accepting
           /\ state_outputs = b.state_out
           /\ nfa_pending = b.pend
           /\ transitions =
                 IF pc = "done" /\ b.pend # None
                 THEN Append(b.ts, GroupTransition(b.pend[1], b.pend[2], b.pend[3]))
                 ELSE b.ts

\* a record of unknown type is read without error and changes no local
UnknownStep ==
    (/\ pc = "decode" /\ pos < Len(records)
     /\ parse_record(records[pos + 1]).ok
     /\ FieldsOf(pos + 1)[1] \notin 0..3) =>
        /\ pc' \in {"decode", "done"}
        /\ error' = error
        /\ pos' = pos + 1 =>
              /\ state_ids' = state_ids /\ input_ids' = input_ids
              /\ output_ids' = output_ids
              /\ initial_state' = initial_state /\ accepting_states' = accepting_states
              /\ state_outputs' = state_outputs /\ transitions' = transitions
              /\ has_mealy' = has_mealy /\ has_nfa_multi' = has_nfa_multi
              /\ has_moore_outputs' = has_moore_outputs
              /\ nfa_pending' = nfa_pending

\* C21: a well-formed record whose type is none of 0..3 raises no error and
\* leaves the id sets, the initial and accepting states, the state outputs,
\* the transitions, the kind flags and the pending group as they are; the
\* decoder ends with the locals, hence the model, of the stream without that
\* record.
C21_UnknownIgnored == []UnknownRemoved /\ [][UnknownStep]_vars

\* a group left open, a record of unknown type, then the record that closes
\* the group: one transition of two targets
C21_Witness ==
    /\ pc = "done"
    /\ Len(records) = 3
    /\ FieldsOf(1)[1] = 3 /\ FieldsOf(1)[5] = 1
    /\ FieldsOf(2)[1] = 4
    /\ FieldsOf(3)[1] = 3 /\ FieldsOf(3)[5] = 0
    /\ Len(transitions) = 1
    /\ Len(transitions[1].to) = 2
    /\ error = None

\* the positions of the state declarations with flag bit 0 set
InitialDecls == {k \in 1..Len(records) : FieldsOf(k)[1] = 2 /\ FieldsOf(k)[3] % 2 = 1}

\* C22: in the FSM decoded from any stream with any label table, the initial
\* state (when set), the accepting states, the source and the targets of
\* every transition and the keys of state_outputs are in states; the input
\* of every transition that has one is in alphabet; the output of every
\* transition that has one and the values of state_outputs are in
\* output_alphabet; the initial state is the state of the last declaration
\* with flag bit 0 set, and there is none without such a declaration.
C22_ReferentiallyClosed ==
    (pc = "done" /\ data = None /\ fsm = None) =>
        \E m \in {result[1]} :
        \E S \in {Range(m.states)}, A \in {Range(m.alphabet)}, O \in {Range(m.output_alphabet)} :
           /\ m.initial # None => m.initial[1] \in S
           /\ m.accepting \subseteq S
           /\ \A k \in 1..Len(m.transitions) :
                 \E t \in {m.transitions[k]} :
                    /\ t.from \in S
                    /\ \A i \in 1..Len(t.to) : t.to[i] \in S
                    /\ t.input # None => t.input[1] \in A
                    /\ t.output # None => t.output[1] \in O
           /\ DOMAIN m.state_outputs \subseteq S
           /\ \A n \in DOMAIN m.state_outputs : m.state_outputs[n] \in O
           /\ \E D \in {InitialDecls} :
                 IF D = {} THEN m.initial = None
                 ELSE \E last \in D :
                         /\ \A k \in D : k <= last
                         /\ m.initial = Some(state_name(labels, FieldsOf(last)[2]))

\* two declarations with flag bit 0 on different states, the second
\* accepting and with an output, then a Mealy transition on an input; the
\* label table gives the kind moore, so state_outputs is kept
C22_Witness ==
    /\ pc = "done"
    /\ data = None /\ fsm = None
    /\ Len(records) = 3
    /\ InitialDecls = {1, 2}
    /\ FieldsOf(1)[2] # FieldsOf(2)[2]
    /\ FieldsOf(2)[3] = 3 /\ FieldsOf(2)[4] # 0
    /\ FieldsOf(3)[1] = 1 /\ FieldsOf(3)[3] # 65535
    /\ result[1].fsm_type = "moore"
    /\ result[1].initial = Some(state_name(labels, FieldsOf(2)[2]))
    /\ result[1].accepting # {}
    /\ DOMAIN result[1].state_outputs # {}
    /\ result[1].transitions[1].input # None
    /\ result[1].transitions[1].output # None

====
